---- MODULE Spec2Model ----
(***************************************************************************)
(* Rating & prediction engine of the Football-Predictor repository:        *)
(*   plpred/elo.py        build_elo, elo_match_probs                        *)
(*   plpred/predict.py    _pois, outcome_probs, top_scorelines              *)
(*   scripts/model.py     PoissonDC (rates, build_grid, probs_from_grid,   *)
(*                        top_scorelines)                                   *)
(*   scripts/core_generate.py  main (Poisson/Elo blend)                     *)
(*                                                                         *)
(* Numbers.  The code computes in binary floating point.  The model uses   *)
(* two carriers, both over the integers:                                   *)
(*   - exact rationals <<n, d>> (d > 0, lowest terms) wherever the code's  *)
(*     result is a rational function of its inputs (PoissonDC's grid,      *)
(*     elo_match_probs on inputs whose powers of ten are rational);        *)
(*   - fixed point (an integer count of 1/PONE, ratings in 1/EloUnit)      *)
(*     where exp or a real power is evaluated at arbitrary arguments       *)
(*     (_pois, the Elo replay).                                            *)
(***************************************************************************)
EXTENDS Integers, Sequences, FiniteSets, TLC

VARIABLES
    pc,            \* position of the operation under way
    dc,            \* PoissonDC: the object's fields and the call's arguments
    grid,          \* PoissonDC.build_grid: its locals and its result
    call,          \* the function called last and its arguments
    ret,           \* what that call returned
    elo,           \* build_elo, evaluate_backtest.main: the locals of the loop under way
    clock          \* what datetime.now(timezone.utc) reads, in days

vars == <<pc, dc, grid, call, ret, elo, clock>>

Idle == "-"

(***************************************************************************)
(* Exact rationals                                                         *)
(***************************************************************************)
Abs(x) == IF x < 0 THEN -x ELSE x

RECURSIVE GCD(_, _)
GCD(a, b) == IF b = 0 THEN a ELSE GCD(b, a % b)

\* n/d in lowest terms with a positive denominator
Norm(n, d) ==
    LET g == GCD(Abs(n), Abs(d))
        s == IF d < 0 THEN -1 ELSE 1
    IN  <<(s * n) \div g, (s * d) \div g>>

R(n) == <<n, 1>>
Zero == <<0, 1>>
OneR == <<1, 1>>

RAdd(x, y) ==
    LET g == GCD(x[2], y[2])
    IN  Norm(x[1] * (y[2] \div g) + y[1] * (x[2] \div g), (x[2] \div g) * y[2])

RNeg(x) == <<-x[1], x[2]>>
RSub(x, y) == RAdd(x, RNeg(y))

RMul(x, y) ==
    LET g1 == GCD(Abs(x[1]), y[2])
        g2 == GCD(Abs(y[1]), x[2])
    IN  IF x[1] = 0 \/ y[1] = 0 THEN Zero
        ELSE Norm((x[1] \div g1) * (y[1] \div g2), (x[2] \div g2) * (y[2] \div g1))

\* y # 0
RDiv(x, y) == RMul(x, Norm(y[2], y[1]))

\* the sign of a/b - c/d (b, d > 0), by comparing the integer parts and then
\* the reciprocals of the fractional parts, so that no product is formed
RECURSIVE CmpFrac(_, _, _, _)
CmpFrac(a, b, c, d) ==
    LET qa == a \div b
        qc == c \div d
        ra == a % b
        rc == c % d
    IN  IF qa # qc THEN (IF qa < qc THEN -1 ELSE 1)
        ELSE IF ra = 0 /\ rc = 0 THEN 0
        ELSE IF ra = 0 THEN -1
        ELSE IF rc = 0 THEN 1
        ELSE CmpFrac(d, rc, b, ra)

RCmp(x, y) == CmpFrac(x[1], x[2], y[1], y[2])

RLe(x, y) == RCmp(x, y) <= 0
RLt(x, y) == RCmp(x, y) < 0
RMax(x, y) == IF RLt(x, y) THEN y ELSE x
RMin(x, y) == IF RLt(y, x) THEN y ELSE x

RECURSIVE RPow(_, _)
RPow(x, k) == IF k = 0 THEN OneR ELSE RMul(x, RPow(x, k - 1))

RECURSIVE Fact(_)
Fact(k) == IF k <= 1 THEN 1 ELSE k * Fact(k - 1)

RECURSIVE RSum(_)
RSum(s) == IF s = <<>> THEN Zero ELSE RAdd(Head(s), RSum(Tail(s)))

Min(a, b) == IF a < b THEN a ELSE b
Max(a, b) == IF a < b THEN b ELSE a

\* Python's s[:k] for k >= 0
Take(s, k) == SubSeq(s, 1, Min(k, Len(s)))

(***************************************************************************)
(* scripts/model.py: PoissonDC                                             *)
(*                                                                         *)
(* The constructor's k is taken as a multiple kln2 of ln 2 and the ratings *)
(* as integers, so that exp(k * diff) = 2^(kln2 * diff) is rational.       *)
(***************************************************************************)
MaxGoals == 2
MaxK == 4

BasePairs == { << <<3, 2>>, <<5, 4>> >>, << <<1, 4>>, <<1, 4>> >> }
Rhos == { <<-30, 1>>, <<-1, 1>>, <<-1, 10>>, <<0, 1>>, <<1, 10>>, <<1, 1>>, <<2, 1>> }
Floors == { <<1, 8>>, <<1, 1>> }
\* a rating: <<x>>, or <<>> for None
Ratings == { <<>>, <<-1>>, <<0>>, <<1>> }

\* exp(kln2 * ln 2 * diff)
ExpK(kln2, diff) ==
    LET m == kln2 * diff
    IN  IF m >= 0 THEN <<2 ^ m, 1>> ELSE <<1, 2 ^ (-m)>>

\* (r or 0.0)
OrZero(r) == IF r = <<>> THEN 0 ELSE r[1]

\* _poisson_vec: exp(-rate) * rate^k / max(1, k!), divided by the vector's
\* sum; exp(-rate) > 0 is common to every entry and cancels in the division.
_poisson_vec(rate, max_goals) ==
    LET raw == [k \in 0 .. max_goals |-> RDiv(RPow(rate, k), R(Max(1, Fact(k))))]
        tot == RSum([n \in 1 .. max_goals + 1 |-> raw[n - 1]])
    IN  [k \in 0 .. max_goals |-> RDiv(raw[k], tot)]

\* PoissonDC.rates
rates(self, r_home, r_away) ==
    LET diff == OrZero(r_home) - OrZero(r_away)
        lam == RMul(self.base_home, ExpK(self.k, diff))
        mu == RMul(self.base_away, ExpK(self.k, -diff))
    IN  <<RMax(self.floor_rate, lam), RMax(self.floor_rate, mu)>>

\* the cells of an (mg+1) x (mg+1) grid, row by row
Cells(mg) ==
    [n \in 1 .. (mg + 1) * (mg + 1) |-> <<(n - 1) \div (mg + 1), (n - 1) % (mg + 1)>>]

GridSum(M, mg) == RSum([n \in 1 .. (mg + 1) * (mg + 1) |-> M[Cells(mg)[n]]])

\* np.outer(ph, pa)
Outer(ph, pa, mg) ==
    [c \in (0 .. mg) \X (0 .. mg) |-> RMul(ph[c[1]], pa[c[2]])]

\* build_grid.f_adj
f_adj_swapped(i, j, lam, mu, rho) ==
    IF i = 0 /\ j = 0 THEN RAdd(OneR, rho)
    ELSE IF i = 0 /\ j = 1 THEN RSub(OneR, rho)
    ELSE IF i = 1 /\ j = 0 THEN RSub(OneR, rho)
    ELSE IF i = 1 /\ j = 1 THEN RAdd(OneR, rho)
    ELSE OneR

f_adj_negated(i, j, lam, mu, rho) ==
    IF i = 0 /\ j = 0 THEN RAdd(OneR, RMul(RMul(lam, mu), rho))
    ELSE IF i = 0 /\ j = 1 THEN RSub(OneR, RMul(lam, rho))
    ELSE IF i = 1 /\ j = 0 THEN RSub(OneR, RMul(mu, rho))
    ELSE IF i = 1 /\ j = 1 THEN RAdd(OneR, rho)
    ELSE OneR

f_adj(i, j, lam, mu, rho) ==
    IF i = 0 /\ j = 0 THEN RSub(OneR, RMul(RMul(lam, mu), rho))
    ELSE IF i = 0 /\ j = 1 THEN RAdd(OneR, RMul(lam, rho))
    ELSE IF i = 1 /\ j = 0 THEN RAdd(OneR, RMul(mu, rho))
    ELSE IF i = 1 /\ j = 1 THEN RSub(OneR, rho)
    ELSE OneR

\* max(0.0, f_adj(i, j))
ClipFactor_unclipped(f) == f

ClipFactor(f) == RMax(Zero, f)

AdjCells == { <<0, 0>>, <<0, 1>>, <<1, 0>>, <<1, 1>> }

\* the loop "for (i, j) in [(0,0), (0,1), (1,0), (1,1)]: M[i, j] *= max(0.0, f_adj(i, j))"
Adjust(M, lam, mu, rho, mg) ==
    [c \in (0 .. mg) \X (0 .. mg) |->
        IF c \in AdjCells /\ c[1] <= mg /\ c[2] <= mg
        THEN RMul(M[c], ClipFactor(f_adj(c[1], c[2], lam, mu, rho)))
        ELSE M[c]]

\* M /= M_sum
Renorm_skipped(M, M_sum, mg) == M

Renorm(M, M_sum, mg) == [c \in (0 .. mg) \X (0 .. mg) |-> RDiv(M[c], M_sum)]

\* PoissonDC.build_grid; the record keeps the locals next to the result M
build_grid(self, r_home, r_away) ==
    LET rt == rates(self, r_home, r_away)
        lam == rt[1]
        mu == rt[2]
        mg == self.max_goals
        ph == _poisson_vec(lam, mg)
        pa == _poisson_vec(mu, mg)
        M0 == Outer(ph, pa, mg)
        Ma == Adjust(M0, lam, mu, self.rho, mg)
        sa == GridSum(Ma, mg)
        fb == RLe(sa, Zero)
        Mb == IF fb THEN M0 ELSE Ma
        M_sum == IF fb THEN GridSum(M0, mg) ELSE sa
    IN  [lam |-> lam, mu |-> mu, outer |-> M0, adjusted |-> Ma, fallback |-> fb,
         M_sum |-> M_sum, M |-> Renorm(Mb, M_sum, mg)]

\* np.tril(M, -1).sum()
TrilSum_upper(M, mg) ==
    RSum([n \in 1 .. (mg + 1) * (mg + 1) |->
            IF Cells(mg)[n][1] < Cells(mg)[n][2] THEN M[Cells(mg)[n]] ELSE Zero])

\* np.tril(M, -1).sum(): the cells with i > j
TrilSum(M, mg) ==
    RSum([n \in 1 .. (mg + 1) * (mg + 1) |->
            IF Cells(mg)[n][1] > Cells(mg)[n][2] THEN M[Cells(mg)[n]] ELSE Zero])

\* M[idx, idx].sum(): the diagonal
DiagSum(M, mg) == RSum([n \in 1 .. mg + 1 |-> M[<<n - 1, n - 1>>]])

\* np.triu(M, +1).sum(): the cells with i < j
TriuSum(M, mg) ==
    RSum([n \in 1 .. (mg + 1) * (mg + 1) |->
            IF Cells(mg)[n][1] < Cells(mg)[n][2] THEN M[Cells(mg)[n]] ELSE Zero])

\* PoissonDC.probs_from_grid: (p_home, p_draw, p_away)
probs_from_grid(M, mg) == <<TrilSum(M, mg), DiagSum(M, mg), TriuSum(M, mg)>>

\* M[(I > 0) & (J > 0)].sum()
BttsSum(M, mg) ==
    RSum([n \in 1 .. (mg + 1) * (mg + 1) |->
            IF Cells(mg)[n][1] > 0 /\ Cells(mg)[n][2] > 0 THEN M[Cells(mg)[n]] ELSE Zero])

\* M[(I + J) > threshold].sum(), the threshold a rational
OverSum(M, mg, threshold) ==
    RSum([n \in 1 .. (mg + 1) * (mg + 1) |->
            IF RLt(threshold, R(Cells(mg)[n][1] + Cells(mg)[n][2]))
            THEN M[Cells(mg)[n]] ELSE Zero])

\* PoissonDC.btts_over_under_from_grid: (btts_yes, btts_no, over, under)
btts_over_under_from_grid(M, mg, threshold) ==
    << BttsSum(M, mg), RSub(OneR, BttsSum(M, mg)),
       OverSum(M, mg, threshold), RSub(OneR, OverSum(M, mg, threshold)) >>

\* Python's order on the tuples (p, i, j)
TupleLt(x, y) ==
    \/ RLt(x[1], y[1])
    \/ x[1] = y[1] /\ x[2] < y[2]
    \/ x[1] = y[1] /\ x[2] = y[2] /\ x[3] < y[3]

\* items.sort(reverse=True): x goes before y when x > y as tuples (no two
\* items are equal, their (i, j) differ)
DcBefore(x, y) == TupleLt(y, x)

\* list.sort(), by insertion: an item goes in front of the first one it is
\* strictly before, so equal items keep the order they had
RECURSIVE DcInsert(_, _)
DcInsert(x, s) ==
    IF s = <<>> THEN <<x>>
    ELSE IF DcBefore(x, Head(s)) THEN <<x>> \o s
    ELSE <<Head(s)>> \o DcInsert(x, Tail(s))

RECURSIVE DcSort(_)
DcSort(s) ==
    IF s = <<>> THEN <<>>
    ELSE DcInsert(s[Len(s)], DcSort(SubSeq(s, 1, Len(s) - 1)))

\* PoissonDC.top_scorelines: items.sort(reverse=True) on (p, i, j), then items[:k]
dc_top_scorelines(M, mg, k) ==
    LET items == [n \in 1 .. (mg + 1) * (mg + 1) |->
                    <<M[Cells(mg)[n]], Cells(mg)[n][1], Cells(mg)[n][2]>>]
        sorted == DcSort(items)
        top == Take(sorted, k)
    IN  [n \in 1 .. Len(top) |->
            [home_goals |-> top[n][2], away_goals |-> top[n][3], prob |-> top[n][1]]]

InitGrid ==
    /\ pc = "PoissonDC"
    /\ dc \in [base : BasePairs, kln2 : {1}, rho : Rhos, max_goals : 0 .. MaxGoals,
                floor_rate : Floors, r_home : Ratings, r_away : Ratings]
    /\ grid = Idle
    /\ call = Idle
    /\ ret = Idle
    /\ elo = Idle
    /\ clock = Idle

Self == [base_home |-> dc.base[1], base_away |-> dc.base[2], k |-> dc.kln2,
         rho |-> dc.rho, max_goals |-> dc.max_goals, floor_rate |-> dc.floor_rate]

BuildGrid ==
    /\ pc = "PoissonDC"
    /\ grid' = build_grid(Self, dc.r_home, dc.r_away)
    /\ pc' = "grid"
    /\ UNCHANGED <<dc, call, ret, elo, clock>>

ProbsFromGrid ==
    /\ pc = "grid"
    /\ call' = [fn |-> "probs_from_grid"]
    /\ ret' = probs_from_grid(grid.M, dc.max_goals)
    /\ pc' = "derived"
    /\ UNCHANGED <<dc, grid, elo, clock>>

TopScorelinesDC ==
    /\ pc = "grid"
    /\ \E k \in 1 .. MaxK :
        /\ call' = [fn |-> "top_scorelines", k |-> k]
        /\ ret' = dc_top_scorelines(grid.M, dc.max_goals, k)
    /\ pc' = "derived"
    /\ UNCHANGED <<dc, grid, elo, clock>>

\* the default threshold=2.5
BttsOverUnderFromGrid ==
    /\ pc = "grid"
    /\ call' = [fn |-> "btts_over_under_from_grid"]
    /\ ret' = btts_over_under_from_grid(grid.M, dc.max_goals, <<5, 2>>)
    /\ pc' = "derived"
    /\ UNCHANGED <<dc, grid, elo, clock>>

NextGrid == BuildGrid \/ ProbsFromGrid \/ TopScorelinesDC \/ BttsOverUnderFromGrid

SpecGrid == InitGrid /\ [][NextGrid]_vars

(***************************************************************************)
(* plpred/predict.py: _pois, outcome_probs, top_scorelines                 *)
(*                                                                         *)
(* Fixed point.  A rate is an integer count of tenths; a Poisson mass is   *)
(* an integer count of 1/PONE; a product of two masses, and so every       *)
(* probability outcome_probs and top_scorelines return, is an integer      *)
(* count of 1/PUNIT, PUNIT = PONE * PONE.  draw_scale is a rational.       *)
(***************************************************************************)
PONE == 10 ^ 4
PUNIT == PONE * PONE

\* x / d to the nearest integer (d > 0, x >= 0)
RoundDiv(x, d) == (2 * x + d) \div (2 * d)

\* lam^k / k! in 1/PONE, lam = L tenths
RECURSIVE PoisTerm(_, _)
PoisTerm(L, k) == IF k = 0 THEN PONE ELSE RoundDiv(PoisTerm(L, k - 1) * L, 10 * k)

\* math.exp(lam) in 1/PONE, by its series (the terms vanish well before the 40th)
RECURSIVE ExpSeries(_, _, _)
ExpSeries(L, k, term) ==
    IF k > 40 \/ term = 0 THEN 0
    ELSE term + ExpSeries(L, k + 1, RoundDiv(term * L, 10 * (k + 1)))

\* _pois(k, lam) = exp(-lam) * lam^k / k!, with lam = max(lam, 1e-9): a rate
\* of 1e-9 and a rate of 0 give the same masses to 1/PONE
_pois(k, lam) ==
    LET L == Max(lam, 0)
        t == PoisTerm(L, k)
        e == ExpSeries(L, 0, PONE)
    IN  IF t < 200000 THEN RoundDiv(t * PONE, e) ELSE RoundDiv(t * 100, e \div 100)

\* max_g = 12 in outcome_probs
max_g == 12

\* the inner loop of outcome_probs for one i: the mass pi[i] * pj[j] of the
\* cells j = from .. mg with sign(i - j) = sgn
RECURSIVE InnerLoop(_, _, _, _, _, _)
InnerLoop(pi, pj, mg, i, from, sgn) ==
    IF from > mg THEN 0
    ELSE LET hit == (sgn = 1 /\ i > from) \/ (sgn = 0 /\ i = from) \/ (sgn = -1 /\ i < from)
         IN  (IF hit THEN pi[i] * pj[from] ELSE 0) + InnerLoop(pi, pj, mg, i, from + 1, sgn)

\* the outer loop, i = from .. mg
RECURSIVE LoopSum(_, _, _, _, _)
LoopSum(pi, pj, mg, from, sgn) ==
    IF from > mg THEN 0
    ELSE InnerLoop(pi, pj, mg, from, 0, sgn) + LoopSum(pi, pj, mg, from + 1, sgn)

\* pd *= draw_scale
ScaleDraw(pd, draw_scale) == (pd \div draw_scale[2]) * draw_scale[1]

\* x / s in 1/PUNIT, for x, s in 1/PUNIT and s > 0
Ratio(x, s) ==
    IF s >= PONE THEN (IF x >= 0 THEN RoundDiv(x, s \div PONE) ELSE -RoundDiv(-x, s \div PONE)) * PONE
    ELSE ((x * PONE) \div s) * PONE

\* "if s > 0: ph /= s; pd /= s; pa /= s"
Renormalise3(ph, pd, pa) ==
    LET s == ph + pd + pa
    IN  IF s > 0 THEN <<Ratio(ph, s), Ratio(pd, s), Ratio(pa, s)>> ELSE <<ph, pd, pa>>

\* outcome_probs(lam_home, lam_away, draw_scale)
outcome_probs(lam_home, lam_away, draw_scale) ==
    LET pi == [i \in 0 .. max_g |-> _pois(i, lam_home)]
        pj == [j \in 0 .. max_g |-> _pois(j, lam_away)]
        ph == LoopSum(pi, pj, max_g, 0, 1)
        pd == LoopSum(pi, pj, max_g, 0, 0)
        pa == LoopSum(pi, pj, max_g, 0, -1)
    IN  IF draw_scale # <<1, 1>>
        THEN Renormalise3(ph, ScaleDraw(pd, draw_scale), pa)
        ELSE <<ph, pd, pa>>

\* out.sort(key=lambda r: r["prob"], reverse=True): a stable sort, so rows of
\* equal prob keep the order the loops appended them in
ProbBefore_ascending(x, y) == x.prob < y.prob

ProbBefore(x, y) == x.prob > y.prob

RECURSIVE ProbInsert(_, _)
ProbInsert(x, s) ==
    IF s = <<>> THEN <<x>>
    ELSE IF ProbBefore(x, Head(s)) THEN <<x>> \o s
    ELSE <<Head(s)>> \o ProbInsert(x, Tail(s))

RECURSIVE ProbSort(_)
ProbSort(s) ==
    IF s = <<>> THEN <<>>
    ELSE ProbInsert(s[Len(s)], ProbSort(SubSeq(s, 1, Len(s) - 1)))

\* out[:k]
TopSlice(out, k) == Take(out, k)

\* top_scorelines(lam_home, lam_away, k, cap)
top_scorelines(lam_home, lam_away, k, cap) ==
    LET out == [n \in 1 .. (cap + 1) * (cap + 1) |->
                  [home_goals |-> Cells(cap)[n][1], away_goals |-> Cells(cap)[n][2],
                   prob |-> _pois(Cells(cap)[n][1], lam_home) * _pois(Cells(cap)[n][2], lam_away)]]
    IN  TopSlice(ProbSort(out), k)

MaxCap == 2

\* rates in tenths, draw scales as rationals
Lams == { 2, 10, 13, 20, 35, 80 }
DrawScales == { <<1, 1>>, <<21, 20>>, <<9, 10>>, <<0, 1>>, <<-1, 1>> }

InitPredict ==
    /\ pc = "call"
    /\ call \in [fn : {"outcome_probs"}, lam_home : Lams, lam_away : Lams,
                  draw_scale : DrawScales]
           \cup [fn : {"top_scorelines"}, lam_home : Lams, lam_away : Lams,
                  k : 1 .. MaxK, cap : 0 .. MaxCap]
    /\ ret = Idle
    /\ dc = Idle
    /\ grid = Idle
    /\ elo = Idle
    /\ clock = Idle

OutcomeProbs ==
    /\ pc = "call"
    /\ call.fn = "outcome_probs"
    /\ ret' = outcome_probs(call.lam_home, call.lam_away, call.draw_scale)
    /\ pc' = "returned"
    /\ UNCHANGED <<call, dc, grid, elo, clock>>

TopScorelines ==
    /\ pc = "call"
    /\ call.fn = "top_scorelines"
    /\ ret' = top_scorelines(call.lam_home, call.lam_away, call.k, call.cap)
    /\ pc' = "returned"
    /\ UNCHANGED <<call, dc, grid, elo, clock>>

NextPredict == OutcomeProbs \/ TopScorelines

SpecPredict == InitPredict /\ [][NextPredict]_vars

(***************************************************************************)
(* plpred/elo.py: build_elo                                                *)
(*                                                                         *)
(* Ratings are integers in 1/EloUnit of a point, weights and expectations  *)
(* integers in 1/PONE; a kickoff date is <<day>> and <<>> stands for a     *)
(* utc_date that is None, empty or rejected by fromisoformat.              *)
(***************************************************************************)
DEFAULT_INIT == 1500
DEFAULT_SCALE == 400
DEFAULT_K == 20
DEFAULT_HA_POINTS == 60

EloUnit == 10 ^ 3

_parse_date(s, now) == IF s = <<>> THEN now ELSE s[1]

\* exp(y), y >= 0 in 1/PONE, by its series
RECURSIVE ExpTerms(_, _, _)
ExpTerms(y, k, term) ==
    IF k > 40 \/ term = 0 THEN 0
    ELSE term + ExpTerms(y, k + 1, RoundDiv(term * y, PONE * (k + 1)))

ExpFp(y) == ExpTerms(y, 0, PONE)

\* b ** (n / d) in 1/PONE, with lnb = ln(b) in 1/PONE and d > 0
PowFp(lnb, n, d) ==
    LET e == ExpFp((Abs(n) * lnb) \div d)
    IN  IF n >= 0 THEN e ELSE RoundDiv(PUNIT, e)

\* 0.5 ** (age_days / half_life_days) = 2 ** (-age_days / half_life_days)
_half_life_weight(age_days, half_life_days) ==
    IF half_life_days <= 0 THEN PONE ELSE PowFp(6931, -age_days, half_life_days)

\* truncation toward zero
TruncDiv(x, d) == IF x < 0 THEN -((-x) \div d) ELSE x \div d

\* 1 / (1 + 10 ** (-delta_points / scale)), delta_points in 1/EloUnit
_expected_Elo(delta_points, scale) ==
    RoundDiv(PUNIT, PONE + PowFp(23026, -TruncDiv(delta_points, 10), scale * 100))

\* G * (2.2 / (0.001 * delta_abs + 2.2)), delta_abs in 1/EloUnit
_goal_diff_factor(gd, delta_abs) ==
    LET G8 == IF gd <= 1 THEN 8 ELSE IF gd = 2 THEN 12 ELSE 11 + gd
    IN  (G8 * 22000 * (PONE \div 8)) \div (delta_abs \div 100 + 22000)

\* d.get(key, default) and d[key] = value on a dict held as a function
Get(d, key, default) == IF key \in DOMAIN d THEN d[key] ELSE default
Put(d, key, value) == [t \in (DOMAIN d) \cup {key} |-> IF t = key THEN value ELSE d[t]]

\* df["kick_dt"] = df["utc_date"].apply(_parse_date)
KickDt(df, now) == [n \in 1 .. Len(df) |-> _parse_date(df[n].utc_date, now)]

\* df.sort_values("kick_dt"): pandas sorts with kind="quicksort", which is
\* not stable, so every arrangement of the rows by non-decreasing kick_dt is
\* a possible result; an arrangement is the sequence of original row numbers
SortValues(df, now) ==
    { p \in [1 .. Len(df) -> 1 .. Len(df)] :
        /\ \A m, n \in 1 .. Len(df) : m # n => p[m] # p[n]
        /\ \A m, n \in 1 .. Len(df) : m < n => KickDt(df, now)[p[m]] <= KickDt(df, now)[p[n]] }

DrawNu_unclamped(df) ==
    LET draws == Cardinality({ n \in 1 .. Len(df) : df[n].home_goals = df[n].away_goals })
        draw_rate == Norm(draws, Max(Len(df), 1))
    IN  RDiv(RMul(R(2), draw_rate), RMax(RSub(OneR, draw_rate), <<1, 1000000>>))

\* draws / len, clamped to [0.15, 0.35], then 2 r / max(1 - r, 1e-6)
DrawNu(df) ==
    LET draws == Cardinality({ n \in 1 .. Len(df) : df[n].home_goals = df[n].away_goals })
        draw_rate == RMin(RMax(Norm(draws, Max(Len(df), 1)), <<3, 20>>), <<7, 20>>)
    IN  RDiv(RMul(R(2), draw_rate), RMax(RSub(OneR, draw_rate), <<1, 1000000>>))

\* lines 64-65 and 81: K = k_base * w_time of one row, in 1/PONE
KOf(m, now, half_life_days) ==
    LET age_days == now - m.kick_dt
        w_time == _half_life_weight(age_days, half_life_days)
    IN  (DEFAULT_K * w_time) \div 10

\* K * g * (Sh - Eh) of one row, in 1/EloUnit
Change(m, Rh, Ra, now, half_life_days) ==
    LET delta == (Rh + DEFAULT_HA_POINTS * EloUnit) - Ra
        Eh == _expected_Elo(delta, DEFAULT_SCALE)
        Sh == IF m.home_goals > m.away_goals THEN PONE
              ELSE IF m.home_goals = m.away_goals THEN PONE \div 2 ELSE 0
        gd == Abs(m.home_goals - m.away_goals)
        g == _goal_diff_factor(gd, Abs(delta))
        K == KOf(m, now, half_life_days)
    IN  TruncDiv(((K * g) \div PONE) * (Sh - Eh), PONE)

\* the body of the loop over df.iterrows(), on the locals of build_elo
ReplayRow(loc, half_life_days) ==
    LET m == loc.df[loc.i]
        h == m.home
        a == m.away
        Rh == Get(loc.ratings, h, DEFAULT_INIT * EloUnit)
        Ra == Get(loc.ratings, a, DEFAULT_INIT * EloUnit)
        change == Change(m, Rh, Ra, loc.now, half_life_days)
        ratings == Put(Put(loc.ratings, h, Rh + change), a, Ra - change)
        gc_h == Put(loc.games_count, h, Get(loc.games_count, h, 0) + 1)
        games_count == Put(gc_h, a, Get(gc_h, a, 0) + 1)
    IN  [loc EXCEPT !.ratings = ratings, !.games_count = games_count, !.i = loc.i + 1]

\* the dict build_elo returns
EloTable(draw_nu, ratings, games_count) ==
    [init |-> DEFAULT_INIT, scale |-> DEFAULT_SCALE, k_base |-> DEFAULT_K,
     home_adv_points |-> DEFAULT_HA_POINTS, draw_nu |-> draw_nu,
     teams |-> [t \in DOMAIN ratings |-> [elo |-> ratings[t], games |-> Get(games_count, t, 0)]]]

MaxRows == 2

Teams == {"A", "B"}
UtcDates == { <<0>>, <<365>>, <<>> }
Scores == { <<2, 0>>, <<1, 1>>, <<0, 3>> }
Clocks == { 400, 730 }
HalfLives == { 0, 365 }

MatchRows ==
    { [utc_date |-> d, home |-> h, away |-> a, home_goals |-> s[1], away_goals |-> s[2]] :
        d \in UtcDates, h \in Teams, a \in Teams, s \in Scores }

\* the columns build_elo and build_ratings read, and the schemas a frame may
\* have: exactly those, one more, or one of them missing
RequiredColumns == {"utc_date", "home", "away", "home_goals", "away_goals"}
ColumnSets ==
    { RequiredColumns, RequiredColumns \cup {"matchday"} }
    \cup { RequiredColumns \ {c} : c \in RequiredColumns }

\* longer frames, of one fixture played MaxSeason times at most: the rows
\* differ in their result only
MaxSeason == 3
SeasonFrames ==
    UNION { [1 .. n -> { r \in MatchRows : r.utc_date = <<0>> /\ r.home = "A" /\ r.away = "B" }] :
              n \in 0 .. MaxSeason }

InitElo ==
    /\ pc = "build_elo"
    /\ call \in [fn : {"build_elo"},
                  df : UNION { [1 .. n -> MatchRows] : n \in 0 .. MaxRows },
                  columns : {RequiredColumns},
                  half_life_days : HalfLives]
           \cup [fn : {"build_elo"},
                  df : UNION { [1 .. n -> MatchRows] : n \in 0 .. 1 },
                  columns : ColumnSets,
                  half_life_days : {365}]
           \cup [fn : {"build_elo"},
                  df : SeasonFrames,
                  columns : {RequiredColumns},
                  half_life_days : {365}]
    /\ clock \in Clocks
    /\ elo = Idle
    /\ ret = Idle
    /\ dc = Idle
    /\ grid = Idle

\* if df.empty: return the neutral table
BuildEloEmpty ==
    /\ pc = "build_elo"
    /\ call.df = <<>>
    /\ ret' = EloTable(OneR, <<>>, <<>>)
    /\ pc' = "returned"
    /\ UNCHANGED <<call, elo, clock, dc, grid>>

\* line 48, 51, 61-62: df["utc_date"], df["home_goals"], m["home"], ... on a
\* frame that has rows but not that column
BuildEloKeyError ==
    /\ pc = "build_elo"
    /\ call.df # <<>>
    /\ ~(RequiredColumns \subseteq call.columns)
    /\ ret' = [raised |-> "KeyError"]
    /\ pc' = "returned"
    /\ UNCHANGED <<call, elo, clock, dc, grid>>

\* the goal columns of a row whose cell holds text that is not a number
\* ("x", "-"): the field text of the row, absent when both cells are numbers
TextCells(m) == IF "text" \in DOMAIN m THEN m.text ELSE {}

HasText(df) == \E n \in 1 .. Len(df) : TextCells(df[n]) # {}

\* lines 47-59: copy, parse the dates, sort, draw_nu, empty dicts, now; p is
\* the arrangement sort_values produced
Locals(df, p, now) ==
    [order |-> p,
     df |-> [n \in 1 .. Len(df) |->
               [utc_date |-> df[p[n]].utc_date,
                home |-> df[p[n]].home,
                away |-> df[p[n]].away,
                home_goals |-> df[p[n]].home_goals,
                away_goals |-> df[p[n]].away_goals,
                text |-> TextCells(df[p[n]]),
                kick_dt |-> KickDt(df, now)[p[n]]]],
     draw_nu |-> DrawNu(df),
     ratings |-> <<>>,
     games_count |-> <<>>,
     now |-> now,
     i |-> 1]

BuildEloSort ==
    /\ pc = "build_elo"
    /\ call.df # <<>>
    /\ RequiredColumns \subseteq call.columns
    /\ \E p \in SortValues(call.df, clock) : elo' = Locals(call.df, p, clock)
    /\ pc' = "replay"
    /\ UNCHANGED <<call, ret, clock, dc, grid>>

\* one iteration of the loop of lines 60-87
ReplayMatch ==
    /\ pc = "replay"
    /\ elo.i <= Len(elo.df)
    /\ elo.df[elo.i].text = {}
    /\ elo' = ReplayRow(elo, call.half_life_days)
    /\ UNCHANGED <<pc, call, ret, clock, dc, grid>>

\* line 62: int(m["home_goals"]), int(m["away_goals"]) on text that is not a
\* number
ReplayMatchValueError ==
    /\ pc = "replay"
    /\ elo.i <= Len(elo.df)
    /\ elo.df[elo.i].text # {}
    /\ ret' = [raised |-> "ValueError"]
    /\ pc' = "returned"
    /\ UNCHANGED <<call, elo, clock, dc, grid>>

\* lines 89-99, once the rows are exhausted
BuildEloReturn ==
    /\ pc = "replay"
    /\ elo.i > Len(elo.df)
    /\ ret' = EloTable(elo.draw_nu, elo.ratings, elo.games_count)
    /\ pc' = "returned"
    /\ UNCHANGED <<call, elo, clock, dc, grid>>

\* frames of one fixture whose kickoffs lie before and after the run time
LateDates == { <<0>>, <<365>>, <<800>>, <<>> }
DecayHalfLives == { -30, 0, 365 }
DecayRows ==
    { [utc_date |-> d, home |-> "A", away |-> "B", home_goals |-> s[1], away_goals |-> s[2]] :
        d \in LateDates, s \in Scores }

InitDecay ==
    /\ pc = "build_elo"
    /\ call \in [fn : {"build_elo"},
                  df : UNION { [1 .. n -> DecayRows] : n \in 0 .. MaxRows },
                  columns : {RequiredColumns},
                  half_life_days : DecayHalfLives]
    /\ clock \in Clocks
    /\ elo = Idle
    /\ ret = Idle
    /\ dc = Idle
    /\ grid = Idle

NextDecay == BuildEloEmpty \/ BuildEloSort \/ ReplayMatch \/ BuildEloReturn

SpecDecay == InitDecay /\ [][NextDecay]_vars

NextElo == BuildEloEmpty \/ BuildEloKeyError \/ BuildEloSort \/ ReplayMatch \/ BuildEloReturn

SpecElo == InitElo /\ [][NextElo]_vars

(***************************************************************************)
(* plpred/elo.py: elo_match_probs, in exact rationals.  The inputs are     *)
(* taken where delta / scale is an even integer (or overflows), so that    *)
(* 10 ** (delta / scale) and its square root are rational.                 *)
(***************************************************************************)
RECURSIVE ISqrtIn(_, _, _)
ISqrtIn(n, lo, hi) ==
    IF lo >= hi THEN lo
    ELSE LET mid == (lo + hi + 1) \div 2
         IN  IF mid * mid <= n THEN ISqrtIn(n, mid, hi) ELSE ISqrtIn(n, lo, mid - 1)

\* math.sqrt on a rational whose numerator and denominator are squares
RSqrt(x) == <<ISqrtIn(x[1], 0, Min(x[1], 40000)), ISqrtIn(x[2], 0, Min(x[2], 40000))>>

\* 10.0 ** x: OverflowError above the largest double, 0.0 below the smallest
Pow10(x) ==
    IF RLt(R(308), x) THEN [raised |-> "OverflowError", value |-> Zero]
    ELSE IF RLt(x, R(-324)) THEN [raised |-> "None", value |-> Zero]
    ELSE [raised |-> "None",
          value |-> IF x[1] >= 0 THEN RPow(R(10), x[1]) ELSE RPow(<<1, 10>>, -x[1])]

Thirds == << <<1, 3>>, <<1, 3>>, <<1, 3>> >>

Denom(r, draw_nu) == RAdd(RAdd(r, OneR), RMul(draw_nu, RSqrt(r)))

elo_match_probs(elo_h, elo_a, home_adv_points, scale, draw_nu) ==
    LET delta == (elo_h + home_adv_points) - elo_a
        p == Pow10(RDiv(R(delta), RMax(scale, <<1, 1000000>>)))
        r == p.value
        r_sqrt == RSqrt(r)
        denom == Denom(r, draw_nu)
        pH == RDiv(r, denom)
        pD == RDiv(RMul(draw_nu, r_sqrt), denom)
        pA == RDiv(OneR, denom)
        s == RAdd(RAdd(pH, pD), pA)
    IN  IF p.raised # "None" THEN [raised |-> p.raised, value |-> <<>>]
        ELSE IF RLe(denom, Zero) THEN [raised |-> "None", value |-> Thirds]
        ELSE IF RLe(s, Zero) THEN [raised |-> "None", value |-> Thirds]
        ELSE [raised |-> "None", value |-> <<RDiv(pH, s), RDiv(pD, s), RDiv(pA, s)>>]

EloPoints == { 1440, 1500, 1560 }
HomeAdvs == { 0, 60 }
EloScales == { <<30, 1>>, <<0, 1>>, <<-400, 1>> }
DrawNus == { <<-3, 1>>, <<-1, 1>>, <<-1, 2>>, <<0, 1>>, <<6, 17>>, <<1, 1>>, <<14, 13>> }

InitEloProbs ==
    /\ pc = "call"
    /\ call \in [fn : {"elo_match_probs"}, elo_h : EloPoints, elo_a : EloPoints,
                 home_adv_points : HomeAdvs, scale : EloScales, draw_nu : DrawNus]
    /\ ret = Idle
    /\ dc = Idle
    /\ grid = Idle
    /\ elo = Idle
    /\ clock = Idle

EloMatchProbs ==
    /\ pc = "call"
    /\ call.fn = "elo_match_probs"
    /\ ret' = elo_match_probs(call.elo_h, call.elo_a, call.home_adv_points,
                              call.scale, call.draw_nu)
    /\ pc' = "returned"
    /\ UNCHANGED <<call, dc, grid, elo, clock>>

NextEloProbs == EloMatchProbs

SpecEloProbs == InitEloProbs /\ [][NextEloProbs]_vars

(***************************************************************************)
(* scripts/core_generate.py: main                                          *)
(***************************************************************************)
FixtureColumns == <<"match_id", "utc_date", "home", "away", "competition">>

\* What http_get comes back with.  kind "ok": a response whose
\* raise_for_status passes and whose json() is a dict; "dict": a plain dict
\* (no raise_for_status); "bad_json": json() raises; "status_error":
\* raise_for_status raises; "http_error": the getter raises
\* requests.HTTPError; "connection_error": the getter raises another
\* exception.  A match of the answer holds <<x>> for a value x and <<>> for
\* a key that is missing or None.
\* data.get("matches", []) of _coerce_json(r)
MatchesOf(response) == IF response.kind \in {"ok", "dict"} THEN response.matches ELSE <<>>

\* lines 71 and 195, except requests.HTTPError: the exception of the getter
\* that leaves the function, "None" when it is caught or none was raised
Uncaught_any(response) ==
    IF response.kind = "connection_error" THEN "ConnectionError"
    ELSE IF response.kind = "http_error" THEN "HTTPError" ELSE "None"

Uncaught(response) ==
    IF response.kind = "connection_error" THEN "ConnectionError" ELSE "None"

\* lines 164-170 and 187-193: the row of a match
FixtureOf(m) ==
    [match_id |-> m.id, utc_date |-> m.utcDate, home |-> m.homeTeam, away |-> m.awayTeam,
     competition |-> m.competition]

\* fetch_fixtures in its legacy form (three or more positional arguments,
\* the second a str) and in its modern form.  core_generate calls
\* fetch_fixtures(token, comp=..., date_from=..., date_to=..., statuses=...):
\* one positional argument, hence the modern form.
fetch_fixtures(legacy, response) ==
    LET rows == [n \in 1 .. Len(MatchesOf(response)) |-> FixtureOf(MatchesOf(response)[n])]
    IN  IF Uncaught(response) # "None"
        THEN [raised |-> Uncaught(response), frame |-> Idle]
        ELSE IF legacy
        THEN [raised |-> "None",
              list |-> IF response.kind \in {"status_error", "http_error"} THEN <<>> ELSE rows]
        ELSE [raised |-> "None",
              frame |-> [columns |-> FixtureColumns,
                         rows |-> IF response.kind \in {"status_error", "http_error"}
                                  THEN <<>> ELSE rows]]

\* for m in fixtures: iterating a DataFrame yields its column labels
IterFrame(frame) == [n \in 1 .. Len(frame.columns) |-> [type |-> "str", value |-> frame.columns[n]]]

\* the parameters outcome_probs accepts, and the keywords line 64 passes
OutcomeProbsParams == {"lam_home", "lam_away", "draw_scale"}
OutcomeProbsKeywords == {"draw_scale", "maxg"}

\* the body of the loop up to its first statement that cannot complete:
\* m.get on a str (line 51), else the call of outcome_probs (line 64)
LoopBodyRaises(m) ==
    IF m.type = "str" THEN "AttributeError"
    ELSE IF ~(OutcomeProbsKeywords \subseteq OutcomeProbsParams) THEN "TypeError"
    ELSE "None"

\* lines 70-78: the blend of a Poisson triple and an Elo triple
Blend(p_pois, p_elo, blend_elo) ==
    LET w == RMin(RMax(blend_elo, Zero), OneR)
        mix == [n \in 1 .. 3 |-> RAdd(RMul(RSub(OneR, w), p_pois[n]), RMul(w, p_elo[n]))]
        s == RAdd(RAdd(mix[1], mix[2]), mix[3])
    IN  IF RLe(s, Zero) THEN Thirds
        ELSE <<RDiv(mix[1], s), RDiv(mix[2], s), RDiv(mix[3], s)>>

RECURSIVE MainLoop(_, _, _)
MainLoop(items, n, preds) ==
    IF n > Len(items) THEN [raised |-> "None", preds |-> preds, written |-> TRUE]
    ELSE IF LoopBodyRaises(items[n]) # "None"
         THEN [raised |-> LoopBodyRaises(items[n]), preds |-> preds, written |-> FALSE]
         ELSE MainLoop(items, n + 1, Append(preds, items[n]))

main(env) ==
    LET fixtures == fetch_fixtures(FALSE, env.response)
    IN  IF fixtures.raised # "None"
        THEN [raised |-> fixtures.raised, preds |-> <<>>, written |-> FALSE]
        ELSE MainLoop(IterFrame(fixtures.frame), 1, <<>>)

MaxFixtures == 2

BlendElos == { <<-1, 2>>, <<0, 1>>, <<2, 5>>, <<1, 1>>, <<3, 2>> }
FixtureRows ==
    { [id |-> <<1>>, utcDate |-> <<0>>, homeTeam |-> <<"A">>, awayTeam |-> <<"B">>,
       competition |-> <<"PL">>, fullTime |-> << <<>>, <<>> >>],
      [id |-> <<2>>, utcDate |-> <<0>>, homeTeam |-> <<"B">>, awayTeam |-> <<"A">>,
       competition |-> <<"PL">>, fullTime |-> << <<>>, <<>> >>] }
Responses ==
    { [kind |-> "connection_error", matches |-> <<>>], [kind |-> "http_error", matches |-> <<>>] }
    \cup { [kind |-> "ok", matches |-> ms] :
             ms \in UNION { [1 .. n -> FixtureRows] : n \in 0 .. MaxFixtures } }

InitGenerate ==
    /\ pc = "call"
    /\ call \in [fn : {"main"}, blend_elo : BlendElos, draw_scale : {<<1, 1>>, <<21, 20>>},
                 draw_nu : {<<6, 17>>, <<1, 1>>}, response : Responses]
    /\ ret = Idle
    /\ dc = Idle
    /\ grid = Idle
    /\ elo = Idle
    /\ clock = Idle

Main ==
    /\ pc = "call"
    /\ call.fn = "main"
    /\ ret' = main(call)
    /\ pc' = "returned"
    /\ UNCHANGED <<call, dc, grid, elo, clock>>

NextGenerate == Main

SpecGenerate == InitGenerate /\ [][NextGenerate]_vars

(***************************************************************************)
(* plpred/ratings.py: build_ratings, in exact rationals.  The half-lives   *)
(* and dates are taken where age_days / half_life_days is an integer, so   *)
(* that 0.5 ** (age_days / half_life_days) is rational.                    *)
(***************************************************************************)
RECURSIVE Pow2(_)
Pow2(k) == IF k = 0 THEN 1 ELSE 2 * Pow2(k - 1)

\* ratings._half_life_weight: 0.5 ** (age_days / half_life_days)
ratings_half_life_weight(age_days, half_life_days) ==
    IF half_life_days <= 0 THEN OneR
    ELSE IF age_days >= 0 THEN <<1, Pow2(age_days \div half_life_days)>>
    ELSE <<Pow2((-age_days) \div half_life_days), 1>>

\* a table with every entry computed once, when the table is built
Table(f) == IF f = <<>> THEN <<>> ELSE f

\* Series.clip(lo, hi)
Clip(x, lo, hi) == RMin(RMax(x, lo), hi)

\* lines 28-31: the weight of every row
Weights(rows, now, half_life_days) ==
    Table([n \in 1 .. Len(rows) |->
        Clip(ratings_half_life_weight(now - _parse_date(rows[n].utc_date, now), half_life_days),
             <<1, 20>>, OneR)])

\* the names a groupby on the home and on the away column yields
TeamsOf(rows) == { rows[n].home : n \in 1 .. Len(rows) } \cup { rows[n].away : n \in 1 .. Len(rows) }
HomeTeams(rows) == { rows[n].home : n \in 1 .. Len(rows) }
AwayTeams(rows) == { rows[n].away : n \in 1 .. Len(rows) }

\* h.join(a, how="outer"): the index of the joined frame
JoinIndex_inner(rows) == HomeTeams(rows) \cap AwayTeams(rows)

JoinIndex(rows) == HomeTeams(rows) \cup AwayTeams(rows)

\* (g[col] * g["w"]).sum() over the rows of team t in column side
GroupSum(rows, side, t, col) ==
    RSum([n \in 1 .. Len(rows) |->
            IF rows[n][side] = t THEN RMul(rows[n][col], rows[n].w) ELSE Zero])

\* g["w"].sum()
GroupWeight(rows, side, t) ==
    RSum([n \in 1 .. Len(rows) |-> IF rows[n][side] = t THEN rows[n].w ELSE Zero])

\* _agg (lines 33-48) and its copy for the adjusted rows (lines 104-115):
\* rows carry home, away, w and the four per-row goal columns; a team missing
\* on one side of the outer join gets 0.0 there
_agg(rows) ==
    Table([t \in JoinIndex(rows) |->
        LET gf_h == GroupSum(rows, "home", t, "gf_h")
            ga_h == GroupSum(rows, "home", t, "ga_h")
            gp_h == GroupWeight(rows, "home", t)
            gf_a == GroupSum(rows, "away", t, "gf_a")
            ga_a == GroupSum(rows, "away", t, "ga_a")
            gp_a == GroupWeight(rows, "away", t)
        IN  [gf_h |-> gf_h, ga_h |-> ga_h, gp_h |-> gp_h,
             gf_a |-> gf_a, ga_a |-> ga_a, gp_a |-> gp_a,
             gf |-> RAdd(gf_h, gf_a), ga |-> RAdd(ga_h, ga_a), gp |-> RAdd(gp_h, gp_a)]])

\* base[col].sum()
RECURSIVE ColumnSum(_, _, _)
ColumnSum(s, col, ts) ==
    IF ts = {} THEN Zero
    ELSE LET t == CHOOSE x \in ts : TRUE
         IN  RAdd(s[t][col], ColumnSum(s, col, ts \ {t}))

Tiny == <<1, 1000000>>

\* _rates_from_agg (lines 64-82)
_rates_from_agg(s, lg_gpg) ==
    Table([t \in DOMAIN s |->
        LET r == s[t]
            gp == RMax(r.gp, Tiny)
            gp_h == RMax(r.gp_h, Tiny)
            gp_a == RMax(r.gp_a, Tiny)
            att == RDiv(RDiv(r.gf, gp), lg_gpg)
            deff == RDiv(lg_gpg, RMax(RDiv(r.ga, gp), Tiny))
        IN  [att |-> att,
             def |-> deff,
             att_home |-> IF RLt(Zero, r.gp_h) THEN RDiv(RDiv(r.gf_h, gp_h), lg_gpg) ELSE att,
             def_home |-> IF RLt(Zero, r.gp_h)
                          THEN RDiv(lg_gpg, RMax(RDiv(r.ga_h, gp_h), Tiny)) ELSE deff,
             att_away |-> IF RLt(Zero, r.gp_a) THEN RDiv(RDiv(r.gf_a, gp_a), lg_gpg) ELSE att,
             def_away |-> IF RLt(Zero, r.gp_a)
                          THEN RDiv(lg_gpg, RMax(RDiv(r.ga_a, gp_a), Tiny)) ELSE deff,
             games |-> r.gp]])

\* teams.get(t, {}).get(key, 1.0)
Strength(teams, t, key) == IF t \in DOMAIN teams THEN teams[t][key] ELSE OneR

\* lines 87-103: goals adjusted by the opponent's first-pass strength
AdjRows(rows, teams) ==
    Table([n \in 1 .. Len(rows) |->
        LET m == rows[n]
            Floor02(x) == RMax(x, <<1, 5>>)
        IN  [home |-> m.home, away |-> m.away, w |-> m.w,
             gf_h |-> RDiv(m.gf_h, Floor02(Strength(teams, m.away, "def_away"))),
             ga_h |-> RDiv(m.ga_h, Floor02(Strength(teams, m.away, "att_away"))),
             gf_a |-> RDiv(m.gf_a, Floor02(Strength(teams, m.home, "def_home"))),
             ga_a |-> RDiv(m.ga_a, Floor02(Strength(teams, m.home, "att_home")))]])

\* round(x, nd) for x >= 0: the nearest multiple of 10^-nd, computed digit
\* by digit; a tie goes to the even neighbour
RECURSIVE Digits(_, _, _, _)
Digits(acc, rem, d, nd) ==
    IF nd = 0 THEN <<acc, rem>>
    ELSE Digits(10 * acc + (10 * rem) \div d, (10 * rem) % d, d, nd - 1)

Round(x, nd) ==
    LET dg == Digits(x[1] \div x[2], x[1] % x[2], x[2], nd)
        up == \/ 2 * dg[2] > x[2]
              \/ (2 * dg[2] = x[2] /\ dg[1] % 2 = 1)
    IN  Norm(IF up THEN dg[1] + 1 ELSE dg[1], 10 ^ nd)

\* lines 128-138
OutTeams(rts) ==
    [t \in DOMAIN rts |->
        [att |-> Round(Clip(rts[t].att, <<3, 5>>, <<9, 5>>), 4),
         def |-> Round(Clip(rts[t].def, <<3, 5>>, <<9, 5>>), 4),
         att_home |-> Round(Clip(rts[t].att_home, <<1, 2>>, <<19, 10>>), 4),
         def_home |-> Round(Clip(rts[t].def_home, <<1, 2>>, <<19, 10>>), 4),
         att_away |-> Round(Clip(rts[t].att_away, <<1, 2>>, <<19, 10>>), 4),
         def_away |-> Round(Clip(rts[t].def_away, <<1, 2>>, <<19, 10>>), 4),
         games |-> RMax(rts[t].games, Zero)[1] \div RMax(rts[t].games, Zero)[2]]]

NeutralRatings_unit_adv ==
    [raised |-> "None", league_avg_gpg |-> <<27, 20>>, home_adv |-> OneR,
     draw_scale |-> OneR, teams |-> <<>>]

\* the table of lines 25 and 52
NeutralRatings ==
    [raised |-> "None", league_avg_gpg |-> <<27, 20>>, home_adv |-> <<11, 10>>,
     draw_scale |-> OneR, teams |-> <<>>]

\* a * b for two probabilities in 1/PUNIT, without leaving 32 bits
MulU(a, b) ==
    LET ah == a \div PONE
        al == a % PONE
        bh == b \div PONE
        bl == b % PONE
    IN  ah * bh + (ah * bl + al * bh) \div PONE + (al * bl) \div PUNIT

\* the series of exp(-y) for 0 <= y < 1, y in 1/PONE, result in 1/PUNIT
RECURSIVE ExpNegTerms(_, _, _)
ExpNegTerms(y, k, term) ==
    IF k > 20 \/ term = 0 THEN 0
    ELSE (IF k % 2 = 0 THEN term ELSE -term)
         + ExpNegTerms(y, k + 1, MulU(term, y * PONE) \div (k + 1))

\* exp(-1) in 1/PUNIT
ExpMinusOne == 36787944

RECURSIVE ExpNegInt(_)
ExpNegInt(n) == IF n = 0 THEN PUNIT ELSE MulU(ExpMinusOne, ExpNegInt(n - 1))

\* math.exp(-lam) in 1/PUNIT, lam in 1/PONE
ExpNeg(lam) == MulU(ExpNegInt(lam \div PONE), ExpNegTerms(lam % PONE, 0, PUNIT))

\* the local _pois(k, lam) of build_ratings for k = 0 .. n, in 1/PUNIT, lam in
\* 1/PONE: exp(-lam) * lam**k / k!, each from the one before
RECURSIVE ratings_pois(_, _)
ratings_pois(n, lam) ==
    IF n = 0 THEN <<ExpNeg(lam)>>
    ELSE LET v == ratings_pois(n - 1, lam)
             p == v[n]
         IN  Append(v, (p * (lam \div PONE) + MulU(p, (lam % PONE) * PONE)) \div n)

\* a rational x >= 0 in 1/PONE
ToFp(x) == LET r == Round(x, 4) IN r[1] * (PONE \div r[2])

\* line 125: sum(_pois(g, lam_bar) * _pois(g, mu_bar) for g in range(10)),
\* to 1e-6; beyond a rate of 30 every one of the ten products is below 1e-7
RECURSIVE PdTerms(_, _, _)
PdTerms(pl, pm, g) ==
    IF g = 0 THEN 0 ELSE MulU(pl[g], pm[g]) + PdTerms(pl, pm, g - 1)

pd_model(lam_bar, mu_bar) ==
    IF RLt(<<30, 1>>, lam_bar) \/ RLt(<<30, 1>>, mu_bar) THEN Zero
    ELSE Norm(RoundDiv(PdTerms(ratings_pois(9, ToFp(lam_bar)), ratings_pois(9, ToFp(mu_bar)), 10),
                       100), 1000000)

\* pd.Series(...).mean() over the values of rates
Mean(rts, key) ==
    IF DOMAIN rts = {} THEN OneR
    ELSE RDiv(ColumnSum(rts, key, DOMAIN rts), <<Cardinality(DOMAIN rts), 1>>)

\* lines 119-126
draw_scale_of(rows, rts, lg_gpg, home_adv) ==
    LET drawn == RSum([n \in 1 .. Len(rows) |->
                        IF rows[n].home_goals = rows[n].away_goals THEN rows[n].w ELSE Zero])
        total == RSum([n \in 1 .. Len(rows) |-> rows[n].w])
        obs_draw == RDiv(drawn, RMax(total, Tiny))
        mean_att == Mean(rts, "att")
        mean_def == Mean(rts, "def")
        mu_bar == RMul(RMul(lg_gpg, mean_att), mean_def)
        lam_bar == RMul(mu_bar, home_adv)
    IN  RMax(RMin(RDiv(obs_draw, RMax(pd_model(lam_bar, mu_bar), Tiny)), <<11, 10>>), <<9, 10>>)

\* lines 27-31 and the first-pass columns of _agg
WeightedRows(rows, now, half_life_days) ==
    LET w == Weights(rows, now, half_life_days)
    IN  Table([n \in 1 .. Len(rows) |->
            [home |-> rows[n].home, away |-> rows[n].away, w |-> w[n],
             home_goals |-> rows[n].home_goals, away_goals |-> rows[n].away_goals,
             gf_h |-> <<rows[n].home_goals, 1>>, ga_h |-> <<rows[n].away_goals, 1>>,
             gf_a |-> <<rows[n].away_goals, 1>>, ga_a |-> <<rows[n].home_goals, 1>>]])

\* lines 57-60
home_adv_of(base, max_home_adv, min_home_adv) ==
    LET h_gpg == RDiv(ColumnSum(base, "gf_h", DOMAIN base),
                      RMax(ColumnSum(base, "gp_h", DOMAIN base), Tiny))
        a_gpg == RDiv(ColumnSum(base, "gf_a", DOMAIN base),
                      RMax(ColumnSum(base, "gp_a", DOMAIN base), Tiny))
    IN  RMin(RMax(RDiv(h_gpg, RMax(a_gpg, Tiny)), min_home_adv), max_home_adv)

\* lines 54-55
lg_gpg_of(base) ==
    RMax(RDiv(RAdd(ColumnSum(base, "gf", DOMAIN base), ColumnSum(base, "ga", DOMAIN base)),
              RMul(<<2, 1>>, ColumnSum(base, "gp", DOMAIN base))),
         <<1, 100>>)

\* build_ratings(df, half_life_days, max_home_adv=..., min_home_adv=...) for a
\* frame that has rows and every column the function reads, called at now
build_ratings(rows, now, half_life_days, max_home_adv, min_home_adv) ==
    LET df == WeightedRows(rows, now, half_life_days)
        base == _agg(df)
    IN  IF RLe(ColumnSum(base, "gp", DOMAIN base), Zero) THEN NeutralRatings
        ELSE LET lg_gpg == lg_gpg_of(base)
                 home_adv == home_adv_of(base, max_home_adv, min_home_adv)
                 rates0 == _rates_from_agg(base, lg_gpg)
                 s2 == _agg(AdjRows(df, rates0))
                 rts == _rates_from_agg(s2, lg_gpg)
             IN  [raised |-> "None",
                  league_avg_gpg |-> Round(lg_gpg, 3),
                  home_adv |-> Round(home_adv, 3),
                  draw_scale |-> Round(draw_scale_of(df, rts, lg_gpg, home_adv), 3),
                  teams |-> OutTeams(rts)]

\* the frames given to build_ratings: rows of two pairings (B plays at home
\* and away, A only at home, C only away), results in which both sides
\* score, and the column sets
RatingPairs == { <<"A", "B">>, <<"B", "C">> }
RatingScores == { <<3, 1>>, <<1, 1>>, <<1, 4>> }
RatingDates == { <<0>>, <<>> }
RatingClocks == { 365, 730 }
RatingHalfLives == { 0, 73, 365 }
\* min_home_adv = 1.05 and max_home_adv = 1.25 of the signature, and two
\* other settings
DefaultHomeAdv == [min |-> <<21, 20>>, max |-> <<5, 4>>]
HomeAdvBounds ==
    { DefaultHomeAdv,
      [min |-> <<1, 1>>, max |-> <<13, 10>>],
      [min |-> <<9, 10>>, max |-> <<19, 20>>] }
RatingRows ==
    { [utc_date |-> d, home |-> p[1], away |-> p[2], home_goals |-> s[1], away_goals |-> s[2]] :
        d \in RatingDates, p \in RatingPairs, s \in RatingScores }

RatingFrames == UNION { [1 .. n -> RatingRows] : n \in 0 .. MaxRows }

InitRatings ==
    /\ pc = "call"
    /\ call \in [fn : {"build_ratings"}, df : RatingFrames, columns : {RequiredColumns},
                  half_life_days : RatingHalfLives, home_adv : {DefaultHomeAdv}]
           \cup [fn : {"build_ratings"}, df : RatingFrames, columns : ColumnSets,
                  half_life_days : {365}, home_adv : HomeAdvBounds]
    /\ clock \in RatingClocks
    /\ ret = Idle
    /\ dc = Idle
    /\ grid = Idle
    /\ elo = Idle

\* line 24: the frame has no rows
BuildRatingsEmpty ==
    /\ pc = "call"
    /\ call.fn = "build_ratings"
    /\ call.df = <<>>
    /\ ret' = NeutralRatings
    /\ pc' = "returned"
    /\ UNCHANGED <<call, dc, grid, elo, clock>>

\* lines 29, 35-41: df["utc_date"], g["home_goals"], ... on a frame without
\* that column
BuildRatingsKeyError ==
    /\ pc = "call"
    /\ call.fn = "build_ratings"
    /\ call.df # <<>>
    /\ ~(RequiredColumns \subseteq call.columns)
    /\ ret' = [raised |-> "KeyError"]
    /\ pc' = "returned"
    /\ UNCHANGED <<call, dc, grid, elo, clock>>

\* lines 35-41: g["home_goals"] * g["w"] on a cell that holds text
BuildRatingsTypeError ==
    /\ pc = "call"
    /\ call.fn = "build_ratings"
    /\ call.df # <<>>
    /\ RequiredColumns \subseteq call.columns
    /\ HasText(call.df)
    /\ ret' = [raised |-> "TypeError"]
    /\ pc' = "returned"
    /\ UNCHANGED <<call, dc, grid, elo, clock>>

BuildRatings ==
    /\ pc = "call"
    /\ call.fn = "build_ratings"
    /\ call.df # <<>>
    /\ RequiredColumns \subseteq call.columns
    /\ ~HasText(call.df)
    /\ ret' = build_ratings(call.df, clock, call.half_life_days,
                            call.home_adv.max, call.home_adv.min)
    /\ pc' = "returned"
    /\ UNCHANGED <<call, dc, grid, elo, clock>>

NextRatings == BuildRatingsEmpty \/ BuildRatingsKeyError \/ BuildRatings

SpecRatings == InitRatings /\ [][NextRatings]_vars

(***************************************************************************)
(* build_elo and build_ratings together: either function is called once on *)
(* a frame, build_elo on a frame of at most one row (where sort_values has *)
(* a single arrangement to return).                                        *)
(***************************************************************************)
InitTables == InitRatings \/ (InitElo /\ Len(call.df) <= 1)

NextTables == NextRatings \/ NextElo

SpecTables == InitTables /\ [][NextTables]_vars


(***************************************************************************)
(* build_elo and build_ratings on frames whose goal cells may hold text.   *)
(* The number kept in a text cell of the model is 0; no returned value     *)
(* depends on it.                                                          *)
(***************************************************************************)
TextRows ==
    { [utc_date |-> <<0>>, home |-> p[1], away |-> p[2],
       home_goals |-> IF "home_goals" \in x THEN 0 ELSE s[1],
       away_goals |-> IF "away_goals" \in x THEN 0 ELSE s[2],
       text |-> x] :
        p \in { <<"A", "B">>, <<"B", "A">> }, s \in { <<3, 1>>, <<1, 1>> },
        x \in { {}, {"home_goals"}, {"away_goals"} } }

TextFrames == UNION { [1 .. n -> TextRows] : n \in 0 .. MaxRows }

InitText ==
    /\ \/ /\ pc = "build_elo"
          /\ call \in [fn : {"build_elo"}, df : TextFrames, columns : {RequiredColumns},
                       half_life_days : {365}]
       \/ /\ pc = "call"
          /\ call \in [fn : {"build_ratings"}, df : TextFrames, columns : {RequiredColumns},
                       half_life_days : {365}, home_adv : {DefaultHomeAdv}]
    /\ clock = 365
    /\ ret = Idle
    /\ dc = Idle
    /\ grid = Idle
    /\ elo = Idle

NextText ==
    \/ BuildEloEmpty \/ BuildEloSort \/ ReplayMatch \/ ReplayMatchValueError \/ BuildEloReturn
    \/ BuildRatingsEmpty \/ BuildRatingsTypeError \/ BuildRatings

SpecText == InitText /\ [][NextText]_vars

(***************************************************************************)
(* plpred/predict.py: canon_team, _build_canon_index, resolve_team_key     *)
(*                                                                         *)
(* A name is a sequence of one-character strings.  The characters of the   *)
(* model: lowercase letters, the capitals "A" "F" "C", the digit "1", the  *)
(* underscore (a word character of the regular expressions, not a          *)
(* character of [a-z0-9]), and the separators "." "&" " ".                 *)
(***************************************************************************)
LowerLetters == { "a", "b", "c", "d", "f", "n" }
Capitals == { "A", "F", "C" }
DigitChars == { "1" }

\* str.lower() on one character
Lower(ch) ==
    IF ch = "A" THEN "a" ELSE IF ch = "F" THEN "f" ELSE IF ch = "C" THEN "c" ELSE ch

\* \w of the re module
IsWord(ch) == ch \in LowerLetters \cup Capitals \cup DigitChars \cup {"_"}

\* [a-z0-9] of _CANON_RE
IsAlnum(ch) == ch \in LowerLetters \cup DigitChars

\* str.strip()
RECURSIVE LStrip(_)
LStrip(s) == IF s # <<>> /\ Head(s) = " " THEN LStrip(Tail(s)) ELSE s

RECURSIVE RStrip(_)
RStrip(s) ==
    IF s # <<>> /\ s[Len(s)] = " " THEN RStrip(SubSeq(s, 1, Len(s) - 1)) ELSE s

Strip(s) == RStrip(LStrip(s))

\* s.replace("&", "and")
RECURSIVE ReplaceAmp(_)
ReplaceAmp(s) ==
    IF s = <<>> THEN <<>>
    ELSE IF Head(s) = "&" THEN <<"a", "n", "d">> \o ReplaceAmp(Tail(s))
    ELSE <<Head(s)>> \o ReplaceAmp(Tail(s))

\* \b at the gap before s[p] (p in 1 .. Len(s) + 1)
WordAt(s, p) == p >= 1 /\ p <= Len(s) /\ IsWord(s[p])
Boundary(s, p) == WordAt(s, p - 1) # WordAt(s, p)

\* s has the literal lit at position p
HasAt(s, p, lit) ==
    /\ p + Len(lit) - 1 <= Len(s)
    /\ \A n \in 1 .. Len(lit) : s[p + n - 1] = lit[n]

\* the position after an optional "." at p (greedy)
AfterDot(s, p) == IF HasAt(s, p, <<".">>) THEN p + 1 ELSE p

\* the end (first position after the match) of a match of
\* \b(?:afc|a\.?f\.?c\.?|fc)\b that starts at p, or 0: the alternatives in
\* their order, the last optional dot given back when no \b follows it
FcMatchEnd(s, p) ==
    IF ~Boundary(s, p) THEN 0
    ELSE IF HasAt(s, p, <<"a", "f", "c">>) /\ Boundary(s, p + 3) THEN p + 3
    ELSE LET pf == AfterDot(s, p + 1)
             pc2 == AfterDot(s, pf + 1)
             pe == pc2 + 1
         IN  IF HasAt(s, p, <<"a">>) /\ HasAt(s, pf, <<"f">>) /\ HasAt(s, pc2, <<"c">>)
                /\ (Boundary(s, AfterDot(s, pe)) \/ Boundary(s, pe))
             THEN IF Boundary(s, AfterDot(s, pe)) THEN AfterDot(s, pe) ELSE pe
             ELSE IF HasAt(s, p, <<"f", "c">>) /\ Boundary(s, p + 2) THEN p + 2
             ELSE 0

\* re.sub(r"\b(?:afc|a\.?f\.?c\.?|fc)\b", "", s), scanning from p
RECURSIVE RemoveFc(_, _)
RemoveFc(s, p) ==
    IF p > Len(s) THEN <<>>
    ELSE IF FcMatchEnd(s, p) > 0 THEN RemoveFc(s, FcMatchEnd(s, p))
    ELSE <<s[p]>> \o RemoveFc(s, p + 1)

\* _CANON_RE.sub(" ", s): every run of characters outside [a-z0-9] becomes
\* one space
RECURSIVE CanonSub(_, _)
CanonSub(s, inrun) ==
    IF s = <<>> THEN <<>>
    ELSE IF IsAlnum(Head(s)) THEN <<Head(s)>> \o CanonSub(Tail(s), FALSE)
    ELSE IF inrun THEN CanonSub(Tail(s), TRUE)
    ELSE <<" ">> \o CanonSub(Tail(s), TRUE)

\* re.sub(r"\s+", " ", s)
RECURSIVE CollapseSpaces(_, _)
CollapseSpaces(s, inrun) ==
    IF s = <<>> THEN <<>>
    ELSE IF Head(s) # " " THEN <<Head(s)>> \o CollapseSpaces(Tail(s), FALSE)
    ELSE IF inrun THEN CollapseSpaces(Tail(s), TRUE)
    ELSE <<" ">> \o CollapseSpaces(Tail(s), TRUE)

\* canon_team; _ALIAS_OVERRIDES is empty
canon_team(name) ==
    IF name = <<>> THEN <<>>
    ELSE LET s1 == Strip([n \in 1 .. Len(name) |-> Lower(name[n])])
             s2 == ReplaceAmp(s1)
             s3 == RemoveFc(s2, 1)
             s4 == Strip(CanonSub(s3, FALSE))
         IN  CollapseSpaces(s4, FALSE)

\* the names given to canon_team
MaxName == 4
CanonChars == { "a", "f", "c", "F", "1", "_", ".", "&", " " }
CanonNames == UNION { [1 .. n -> CanonChars] : n \in 0 .. MaxName }

InitCanon ==
    /\ pc = "call"
    /\ call \in [fn : {"canon_team"}, name : CanonNames]
    /\ ret = Idle
    /\ dc = Idle
    /\ grid = Idle
    /\ elo = Idle
    /\ clock = Idle

CanonTeam ==
    /\ pc = "call"
    /\ call.fn = "canon_team"
    /\ ret' = canon_team(call.name)
    /\ pc' = "returned"
    /\ UNCHANGED <<call, dc, grid, elo, clock>>

NextCanon == CanonTeam

SpecCanon == InitCanon /\ [][NextCanon]_vars

(***************************************************************************)
(* resolve_team_key.  A teams table is the dict ratings["teams"] in its    *)
(* insertion order: a sequence of entries [key, t] with distinct keys, t   *)
(* the dict of the team.  A result key is <<k>>, or <<>> for None.         *)
(***************************************************************************)
\* c.split(): the set of the whitespace-separated tokens of s
RECURSIVE Split(_, _)
Split(s, cur) ==
    IF s = <<>> THEN (IF cur = <<>> THEN {} ELSE {cur})
    ELSE IF Head(s) = " " THEN (IF cur = <<>> THEN {} ELSE {cur}) \cup Split(Tail(s), <<>>)
    ELSE Split(Tail(s), Append(cur, Head(s)))

Tokens(s) == Split(s, <<>>)

\* idx[ck] = k on a dict held as a sequence of <<ck, k>> in insertion order:
\* a canonical form already present keeps its place and takes the new key
IndexPut_keep(idx, ck, k) ==
    IF \E n \in 1 .. Len(idx) : idx[n][1] = ck
    THEN idx
    ELSE Append(idx, <<ck, k>>)

IndexPut(idx, ck, k) ==
    IF \E n \in 1 .. Len(idx) : idx[n][1] = ck
    THEN [n \in 1 .. Len(idx) |-> IF idx[n][1] = ck THEN <<ck, k>> ELSE idx[n]]
    ELSE Append(idx, <<ck, k>>)

\* _build_canon_index over the first n entries
RECURSIVE CanonIndex(_, _)
CanonIndex(teams, n) ==
    IF n = 0 THEN <<>>
    ELSE IndexPut(CanonIndex(teams, n - 1), canon_team(teams[n].key), teams[n].key)

_build_canon_index(teams) == CanonIndex(teams, Len(teams))

\* the loop of lines 73-77 over the first n entries of cidx: <<best_key, best_score>>
Better_or_equal(score, best_score) == score >= best_score

Better(score, best_score) == score > best_score

RECURSIVE BestOverlap(_, _, _)
BestOverlap(cidx, tokens, n) ==
    IF n = 0 THEN << <<>>, -1 >>
    ELSE LET best == BestOverlap(cidx, tokens, n - 1)
             score == Cardinality(tokens \cap Tokens(cidx[n][1]))
         IN  IF Better(score, best[2]) THEN << <<cidx[n][2]>>, score >> ELSE best

\* ratings.get("teams", {})
TeamsOfRatings(ratings) == IF ratings.has_teams THEN ratings.teams ELSE <<>>

resolve_team_key(name, ratings) ==
    LET teams == TeamsOfRatings(ratings)
        cidx == _build_canon_index(teams)
        c == canon_team(name)
        best == BestOverlap(cidx, Tokens(c), Len(cidx))
    IN  IF teams = <<>> THEN [key |-> <<>>, how |-> "no-teams-in-ratings"]
        ELSE IF \E n \in 1 .. Len(cidx) : cidx[n][1] = c
        THEN [key |-> <<cidx[CHOOSE n \in 1 .. Len(cidx) : cidx[n][1] = c][2]>>,
              how |-> "direct"]
        ELSE IF best[2] > 0 THEN [key |-> best[1], how |-> "token-match"]
        ELSE [key |-> <<>>, how |-> "unmatched"]

\* the names and the table keys of the model: one-letter words, with and
\* without capitals, a club suffix, two-word names, the empty name
ResolveNames ==
    { <<>>, <<"a">>, <<"A">>, <<"b">>, <<"c">>, <<"F", "C">>,
      <<"a", " ", "b">>, <<"b", " ", "a">>, <<"b", " ", "c">>, <<"a", " ", "F", "C">> }

MaxKeys == 2

KeyTables ==
    UNION { { s \in [1 .. n -> [key : ResolveNames, t : {<<>>}]] :
                \A i, j \in 1 .. n : i # j => s[i].key # s[j].key } : n \in 0 .. MaxKeys }

InitResolve ==
    /\ pc = "call"
    /\ call \in [fn : {"resolve_team_key"}, name : ResolveNames,
                 ratings : [has_teams : BOOLEAN, teams : KeyTables]]
    /\ ret = Idle
    /\ dc = Idle
    /\ grid = Idle
    /\ elo = Idle
    /\ clock = Idle

ResolveTeamKey ==
    /\ pc = "call"
    /\ call.fn = "resolve_team_key"
    /\ ret' = resolve_team_key(call.name, call.ratings)
    /\ pc' = "returned"
    /\ UNCHANGED <<call, dc, grid, elo, clock>>

NextResolve == ResolveTeamKey

SpecResolve == InitResolve /\ [][NextResolve]_vars

(***************************************************************************)
(* _get_strengths and expected_goals_for_pair, in exact rationals, and     *)
(* build_predictions of scripts/generate.py.  The dict of a team and the   *)
(* league baselines of a ratings file are functions on their keys.         *)
(***************************************************************************)
\* the defaults of the dataclass Strengths
Strengths_half ==
    [att |-> OneR, deff |-> OneR, att_h |-> <<1, 2>>, deff_h |-> OneR,
     att_a |-> <<1, 2>>, deff_a |-> OneR]

Strengths ==
    [att |-> OneR, deff |-> OneR, att_h |-> OneR, deff_h |-> OneR,
     att_a |-> OneR, deff_a |-> OneR]

\* ratings.get("teams", {}).get(key, {})
TeamDict(teams, key) ==
    IF \E n \in 1 .. Len(teams) : teams[n].key = key
    THEN teams[CHOOSE n \in 1 .. Len(teams) : teams[n].key = key].t
    ELSE <<>>

\* _get_strengths(key, ratings): "not key" holds for None and for ""
_get_strengths(key, ratings) ==
    IF key = <<>> \/ key = << <<>> >> THEN Strengths
    ELSE LET t == TeamDict(TeamsOfRatings(ratings), key[1])
         IN  [att |-> Get(t, "att", OneR),
              deff |-> Get(t, "def", OneR),
              att_h |-> Get(t, "att_h", Get(t, "att", OneR)),
              deff_h |-> Get(t, "def_h", Get(t, "def", OneR)),
              att_a |-> Get(t, "att_a", Get(t, "att", OneR)),
              deff_a |-> Get(t, "def_a", Get(t, "def", OneR))]

\* max(0.2, min(lam, 3.5))
SanityCap(lam) == RMax(<<1, 5>>, RMin(lam, <<7, 2>>))

\* lines 182-188: the two rates of a pair of Strengths
PairRates(base_home, base_away, sh, sa) ==
    << SanityCap(RDiv(RMul(base_home, sh.att_h), RMax(sa.deff_a, Tiny))),
       SanityCap(RDiv(RMul(base_away, sa.att_a), RMax(sh.deff_h, Tiny))) >>

\* lines 190-200: the triple returned; rh and ra are the two results of
\* resolve_team_key, lam the two rates
PairResult(home_name, away_name, rh, ra, lam) ==
    [lam_h |-> lam[1], lam_a |-> lam[2],
     debug |-> [home_name |-> home_name, away_name |-> away_name,
                home_key |-> rh.key, away_key |-> ra.key,
                resolve_home |-> rh.how, resolve_away |-> ra.how,
                lam_home |-> Round(lam[1], 3), lam_away |-> Round(lam[2], 3)]]

\* the element of a one-element set: { e(x) : x \in {v} } names v once
Only(S) == CHOOSE x \in S : TRUE

expected_goals_for_pair(home_name, away_name, ratings) ==
    LET base_home == Get(ratings.xg, "base_home_xg", Get(ratings.xg, "league_home_xg", <<29, 20>>))
        base_away == Get(ratings.xg, "base_away_xg", Get(ratings.xg, "league_away_xg", <<27, 20>>))
    IN  Only({ Only({ PairResult(home_name, away_name, r[1], r[2], lam) :
                        lam \in { PairRates(base_home, base_away,
                                            _get_strengths(r[1].key, ratings),
                                            _get_strengths(r[2].key, ratings)) } }) :
                 r \in { << resolve_team_key(home_name, ratings),
                            resolve_team_key(away_name, ratings) >> } })

\* row.get("match_id") or f"{kickoff}_{home[:3]}-{away[:3]}", the kickoff
\* being the same text in every row of the model
MatchId(row) ==
    IF row.match_id # <<>> THEN row.match_id
    ELSE <<"_">> \o Take(row.home, 3) \o <<"-">> \o Take(row.away, 3)

\* one turn of the loop of build_predictions: the prediction and the debug
\* note of a row, e the triple of expected_goals_for_pair.  probs,
\* probs_components and scorelines_top of the prediction are outcome_probs
\* and top_scorelines of the two rates (SpecPredict) and are not carried in
\* the record.
Turn(row, e) ==
    [pred |-> [match_id |-> MatchId(row), home |-> row.home, away |-> row.away,
               xg |-> [home |-> Round(e.lam_h, 2), away |-> Round(e.lam_a, 2)],
               notes |-> [resolve |-> [home |-> e.debug.resolve_home,
                                       away |-> e.debug.resolve_away]]],
     dbg |-> e.debug]

\* the loop over the first n rows
RECURSIVE Turns(_, _, _)
Turns(fixtures, ratings, n) ==
    IF n = 0 THEN <<>>
    ELSE Append(Turns(fixtures, ratings, n - 1),
                Only({ Turn(fixtures[n], e) :
                         e \in { expected_goals_for_pair(fixtures[n].home, fixtures[n].away,
                                                         ratings) } }))

\* resolve_counts[(how_h, how_a)] += 1 over the turns
ResolveCounts(turns) ==
    LET pairs == { <<turns[n].dbg.resolve_home, turns[n].dbg.resolve_away>> : n \in 1 .. Len(turns) }
    IN  [p \in pairs |->
            Cardinality({ n \in 1 .. Len(turns) :
                            <<turns[n].dbg.resolve_home, turns[n].dbg.resolve_away>> = p })]

\* lines 224-235: the predictions returned and the report written to
\* reports/name_resolution.json
Output(turns) ==
    [predictions |-> [n \in 1 .. Len(turns) |-> turns[n].pred],
     name_resolution |-> [counts |-> ResolveCounts(turns),
                          examples |-> Take([n \in 1 .. Len(turns) |-> turns[n].dbg], 100)]]

build_predictions(fixtures, ratings) ==
    Only({ Output(turns) : turns \in { Turns(fixtures, ratings, Len(fixtures)) } })

\* the dict of a team: empty, overall factors only, or with the split keys
\* _get_strengths reads
TeamDicts ==
    { <<>>,
      [att |-> <<2, 1>>, def |-> <<0, 1>>],
      [att |-> <<1, 2>>, def |-> <<3, 1>>, att_h |-> <<10, 1>>, def_h |-> <<1, 10>>,
       att_a |-> <<0, 1>>, def_a |-> <<4, 1>>] }

\* league baselines present in a ratings file
XgDicts ==
    { <<>>,
      [league_home_xg |-> <<8, 5>>, league_away_xg |-> <<6, 5>>],
      [base_home_xg |-> <<2, 1>>, league_home_xg |-> <<8, 5>>, base_away_xg |-> <<1, 1>>] }

PairNames == { <<"A">>, <<"b", " ", "c">>, <<"d">>, <<>> }

PairTables ==
    UNION { { s \in [1 .. n -> [key : {<<"a">>, <<"b">>}, t : TeamDicts]] :
                \A i, j \in 1 .. n : i # j => s[i].key # s[j].key } : n \in 0 .. MaxKeys }

\* the ratings files build_predictions is run with: none loaded, no table,
\* a table of two teams
SomeRatings ==
    { [has_teams |-> FALSE, teams |-> <<>>, xg |-> <<>>],
      [has_teams |-> TRUE, teams |-> <<>>, xg |-> [league_home_xg |-> <<8, 5>>, league_away_xg |-> <<6, 5>>]],
      [has_teams |-> TRUE, xg |-> <<>>,
       teams |-> << [key |-> <<"a">>, t |-> [att |-> <<2, 1>>, def |-> <<0, 1>>]],
                    [key |-> <<"b">>, t |-> [att |-> <<1, 2>>, def |-> <<3, 1>>, att_h |-> <<10, 1>>,
                                              def_h |-> <<1, 10>>, att_a |-> <<0, 1>>, def_a |-> <<4, 1>>]] >>] }

PairRows ==
    [home : PairNames, away : PairNames, match_id : {<<>>}]
    \cup { [home |-> <<"A">>, away |-> <<"b", " ", "c">>, match_id |-> <<"m">>] }

InitPairs ==
    /\ pc = "call"
    /\ call \in [fn : {"expected_goals_for_pair"}, home_name : PairNames, away_name : PairNames,
                 ratings : [has_teams : BOOLEAN, teams : PairTables, xg : XgDicts]]
           \cup [fn : {"build_predictions"},
                 fixtures : UNION { [1 .. n -> PairRows] : n \in 0 .. MaxFixtures },
                 ratings : SomeRatings]
    /\ ret = Idle
    /\ dc = Idle
    /\ grid = Idle
    /\ elo = Idle
    /\ clock = Idle

ExpectedGoalsForPair ==
    /\ pc = "call"
    /\ call.fn = "expected_goals_for_pair"
    /\ ret' = expected_goals_for_pair(call.home_name, call.away_name, call.ratings)
    /\ pc' = "returned"
    /\ UNCHANGED <<call, dc, grid, elo, clock>>

BuildPredictions ==
    /\ pc = "call"
    /\ call.fn = "build_predictions"
    /\ ret' = build_predictions(call.fixtures, call.ratings)
    /\ pc' = "returned"
    /\ UNCHANGED <<call, dc, grid, elo, clock>>

NextPairs == ExpectedGoalsForPair \/ BuildPredictions

SpecPairs == InitPairs /\ [][NextPairs]_vars

(***************************************************************************)
(* The expected goals of the three prediction paths: the loop body of      *)
(* scripts/core_generate.py (lines 55-63) on the names of one fixture,     *)
(* PoissonDC.rates, and expected_goals_for_pair.  The teams of a strengths *)
(* file are a function on the team names.                                  *)
(***************************************************************************)
\* lines 33-36 and 55-63 of core_generate: base, home_adv, the four factors
\* of the fixture, lam and mu
core_rates(strengths, h, a) ==
    LET base == Get(strengths, "league_avg_gpg", <<27, 20>>)
        home_adv == Get(strengths, "home_adv", <<11, 10>>)
        teams == Get(strengths, "teams", <<>>)
        ht == Get(teams, h, <<>>)
        at == Get(teams, a, <<>>)
        att_h == Get(ht, "att_home", Get(ht, "att", OneR))
        def_h == Get(ht, "def_home", Get(ht, "def", OneR))
        att_a == Get(at, "att_away", Get(at, "att", OneR))
        def_a == Get(at, "def_away", Get(at, "def", OneR))
    IN  [lam |-> RMax(<<1, 20>>, RMul(RMul(RMul(base, att_h), def_a), home_adv)),
         mu |-> RMax(<<1, 20>>, RMul(RMul(base, att_a), def_h))]

\* dicts of a team as build_ratings writes them, factors within [0.5, 1.9]
CoreTeamDicts ==
    { [att |-> <<1, 1>>, def |-> <<1, 1>>],
      [att |-> <<3, 2>>, def |-> <<3, 5>>, att_home |-> <<19, 10>>, def_home |-> <<1, 2>>,
       att_away |-> <<6, 5>>, def_away |-> <<19, 10>>],
      [att |-> <<1, 2>>, def |-> <<1, 2>>, att_home |-> <<1, 2>>, def_home |-> <<1, 2>>,
       att_away |-> <<1, 2>>, def_away |-> <<1, 2>>] }

CoreTeams == { <<>> } \cup [{"A"} -> CoreTeamDicts] \cup [{"A", "B"} -> CoreTeamDicts]

CoreStrengths ==
    { [teams |-> <<>>] }
    \cup [league_avg_gpg : { <<27, 20>>, <<1, 100>> }, home_adv : { <<1, 1>>, <<5, 4>> },
          draw_scale : { OneR }, teams : CoreTeams]

InitRates ==
    /\ pc = "call"
    /\ call \in [fn : {"core_rates"}, strengths : CoreStrengths, home : {"A", "B", "?"},
                 away : {"A", "B", "?"}]
           \cup [fn : {"rates"},
                 self : [base_home : { <<3, 2>>, <<1, 4>> }, base_away : { <<5, 4>>, <<1, 4>> },
                         k : {1}, floor_rate : Floors],
                 r_home : Ratings, r_away : Ratings]
           \cup [fn : {"expected_goals_for_pair"}, home_name : PairNames, away_name : PairNames,
                 ratings : [has_teams : {TRUE}, teams : PairTables, xg : { <<>> }]]
    /\ ret = Idle
    /\ dc = Idle
    /\ grid = Idle
    /\ elo = Idle
    /\ clock = Idle

CoreRates ==
    /\ pc = "call"
    /\ call.fn = "core_rates"
    /\ ret' = core_rates(call.strengths, call.home, call.away)
    /\ pc' = "returned"
    /\ UNCHANGED <<call, dc, grid, elo, clock>>

Rates ==
    /\ pc = "call"
    /\ call.fn = "rates"
    /\ ret' = rates(call.self, call.r_home, call.r_away)
    /\ pc' = "returned"
    /\ UNCHANGED <<call, dc, grid, elo, clock>>

NextRates == CoreRates \/ Rates \/ ExpectedGoalsForPair

SpecRates == InitRates /\ [][NextRates]_vars

(***************************************************************************)
(* plpred/fd_client.py: fetch_results in its legacy form, fetch_fixtures   *)
(* in both forms.  The getter is called once per request; what it comes    *)
(* back with is an input of the call.                                      *)
(***************************************************************************)
ResultColumns == <<"utc_date", "season", "home", "away", "home_goals", "away_goals">>

\* line 78: hg is None or ag is None
GoalMissing_falsy(ft) == ft[1] \in {<<>>, <<0>>} \/ ft[2] \in {<<>>, <<0>>}

GoalMissing(ft) == ft[1] = <<>> \/ ft[2] = <<>>

\* lines 74-87: the rows of one season's answer
RECURSIVE SeasonRows(_, _, _)
SeasonRows(s, matches, n) ==
    IF n = 0 THEN <<>>
    ELSE IF GoalMissing(matches[n].fullTime) THEN SeasonRows(s, matches, n - 1)
    ELSE Append(SeasonRows(s, matches, n - 1),
                [utc_date |-> matches[n].utcDate, season |-> s,
                 home |-> matches[n].homeTeam, away |-> matches[n].awayTeam,
                 home_goals |-> matches[n].fullTime[1][1],
                 away_goals |-> matches[n].fullTime[2][1]])

\* one turn of the loop of lines 60-92 after the turns that left prev: an
\* exception of the getter other than requests.HTTPError leaves the function
SeasonTurn(prev, s, response) ==
    IF prev.raised # "None" THEN prev
    ELSE IF Uncaught(response) # "None" THEN [raised |-> Uncaught(response), rows |-> <<>>]
    ELSE IF response.kind \in {"status_error", "http_error"} THEN prev
    ELSE [raised |-> "None",
          rows |-> prev.rows \o SeasonRows(s, MatchesOf(response), Len(MatchesOf(response)))]

RECURSIVE SeasonsLoop(_, _, _)
SeasonsLoop(seasons, responses, n) ==
    IF n = 0 THEN [raised |-> "None", rows |-> <<>>]
    ELSE Only({ SeasonTurn(prev, seasons[n], responses[n]) :
                  prev \in { SeasonsLoop(seasons, responses, n - 1) } })

\* fetch_results(session, league, seasons, http_get=...): lines 94-96
fetch_results(seasons, responses) ==
    Only({ IF done.raised # "None" THEN [raised |-> done.raised, frame |-> Idle]
           ELSE [raised |-> "None", frame |-> [columns |-> ResultColumns, rows |-> done.rows]] :
             done \in { SeasonsLoop(seasons, responses, Len(seasons)) } })

\* the matches of the answers of the model: a result, a goalless draw, a
\* match without a full-time score, a match whose home side has no name
ApiMatch(id, h, a, ft) ==
    [id |-> <<id>>, utcDate |-> <<0>>, homeTeam |-> h, awayTeam |-> a,
     competition |-> <<"PL">>, fullTime |-> ft]

MatchLists ==
    { <<>>,
      << ApiMatch(1, <<"A">>, <<"B">>, << <<2>>, <<1>> >>) >>,
      << ApiMatch(2, <<"A">>, <<"B">>, << <<>>, <<1>> >>),
         ApiMatch(3, <<"B">>, <<"A">>, << <<0>>, <<0>> >>) >>,
      << ApiMatch(1, <<"A">>, <<"B">>, << <<2>>, <<1>> >>),
         ApiMatch(4, <<>>, <<"B">>, << <<1>>, <<1>> >>),
         ApiMatch(5, <<"B">>, <<"A">>, << <<>>, <<>> >>) >> }

FdResponses ==
    [kind : {"ok", "dict"}, matches : MatchLists]
    \cup [kind : {"bad_json", "status_error", "http_error", "connection_error"}, matches : {<<>>}]

MaxYears == 2

Years == { 2023, 2024 }

InitFd ==
    /\ pc = "call"
    /\ call \in [fn : {"fetch_fixtures"}, legacy : BOOLEAN, response : FdResponses]
           \cup { [fn |-> "fetch_results", seasons |-> s, responses |-> r] :
                    s \in UNION { [1 .. n -> Years] : n \in 0 .. MaxYears },
                    r \in UNION { [1 .. n -> FdResponses] : n \in 0 .. MaxYears } }
    /\ call.fn = "fetch_results" => Len(call.seasons) = Len(call.responses)
    /\ ret = Idle
    /\ dc = Idle
    /\ grid = Idle
    /\ elo = Idle
    /\ clock = Idle

FetchFixtures ==
    /\ pc = "call"
    /\ call.fn = "fetch_fixtures"
    /\ ret' = fetch_fixtures(call.legacy, call.response)
    /\ pc' = "returned"
    /\ UNCHANGED <<call, dc, grid, elo, clock>>

FetchResults ==
    /\ pc = "call"
    /\ call.fn = "fetch_results"
    /\ ret' = fetch_results(call.seasons, call.responses)
    /\ pc' = "returned"
    /\ UNCHANGED <<call, dc, grid, elo, clock>>

NextFd == FetchFixtures \/ FetchResults

SpecFd == InitFd /\ [][NextFd]_vars

(***************************************************************************)
(* One strength table read by both consumers                               *)
(* src/plpred/ratings.py, src/plpred/predict.py, src/scripts/core_generate.py *)
(***************************************************************************)
\* ratings.py 128-138: the entry build_ratings writes for a team, the
\* factors already clamped and rounded, the games count left out
WrittenEntry(att, def, att_home, def_home, att_away, def_away) ==
    [att |-> att, def |-> def, att_home |-> att_home, def_home |-> def_home,
     att_away |-> att_away, def_away |-> def_away]

\* factors within the clamps of lines 131-136
WrittenFactors == { <<3, 5>>, <<1, 1>>, <<9, 5>> }

HomeEntries ==
    { WrittenEntry(a, d, ah, OneR, OneR, OneR) : a \in WrittenFactors, d \in {OneR}, ah \in WrittenFactors }

AwayEntries ==
    { WrittenEntry(OneR, d, OneR, OneR, aa, da) : d \in WrittenFactors, aa \in {OneR, <<3, 5>>}, da \in WrittenFactors }

\* the entry with its overall defence factor, its away-split defence factor,
\* or both, set to a value
WithDefence(entry, field, to) ==
    IF field = "def" THEN [entry EXCEPT !.def = to]
    ELSE IF field = "def_away" THEN [entry EXCEPT !.def_away = to]
    ELSE [entry EXCEPT !.def = to, !.def_away = to]

\* the ratings file of the two teams a and b as predict.py loads it, and as
\* core_generate.py loads it
PairRatings(home, away) ==
    [has_teams |-> TRUE,
     teams |-> << [key |-> <<"a">>, t |-> home], [key |-> <<"b">>, t |-> away] >>,
     xg |-> <<>>]

CoreRatings(home, away) ==
    [teams |-> [k \in {"a", "b"} |-> IF k = "a" THEN home ELSE away]]

\* a table, and the same table with the away team's defence raised
InitTable ==
    /\ pc = "call"
    /\ call \in [fn : {"strength_table"}, home : HomeEntries, away : AwayEntries,
                 field : {"def", "def_away", "both"}, to : WrittenFactors]
    /\ call.field \in {"def", "both"} => RLt(call.away.def, call.to)
    /\ call.field \in {"def_away", "both"} => RLt(call.away.def_away, call.to)
    /\ ret = Idle
    /\ dc = Idle
    /\ grid = Idle
    /\ elo = Idle
    /\ clock = Idle

\* expected_goals_for_pair on the table and on the raised table
PairOnTable ==
    /\ pc = "call"
    /\ call.fn = "strength_table"
    /\ ret' = [pair |-> << expected_goals_for_pair(<<"a">>, <<"b">>,
                              PairRatings(call.home, call.away)),
                           expected_goals_for_pair(<<"a">>, <<"b">>,
                              PairRatings(call.home, WithDefence(call.away, call.field, call.to))) >>]
    /\ pc' = "pair_done"
    /\ UNCHANGED <<call, dc, grid, elo, clock>>

\* the rates of core_generate on the table and on the raised table
CoreOnTable ==
    /\ pc = "pair_done"
    /\ ret' = [pair |-> ret.pair,
               core |-> << core_rates(CoreRatings(call.home, call.away), "a", "b"),
                           core_rates(CoreRatings(call.home,
                                                  WithDefence(call.away, call.field, call.to)),
                                      "a", "b") >>]
    /\ pc' = "returned"
    /\ UNCHANGED <<call, dc, grid, elo, clock>>

NextTable == PairOnTable \/ CoreOnTable

SpecTable == InitTable /\ [][NextTable]_vars

(***************************************************************************)
(* scripts/generate.py: fetch_fixtures_robust, _ensure_df and              *)
(* _finalise_fixtures_df.  A frame under work is the set of its column     *)
(* labels and the sequence of its rows, a row a function of the labels; a  *)
(* cell holds <<x>> for a value x, <<>> for None and <<"name", x>> for a   *)
(* dict {"name": x}.                                                       *)
(***************************************************************************)
FinalColumns == <<"match_id", "utc_date", "home", "away">>

\* pd.DataFrame(rows) of a list of dicts with the same keys
FrameOfRows(rows) == [cols |-> IF rows = <<>> THEN {} ELSE DOMAIN rows[1], rows |-> rows]

\* lines 66-80
_normalise_fd_matches_payload(matches) ==
    FrameOfRows([n \in 1 .. Len(matches) |->
                   [match_id |-> matches[n].id, utc_date |-> matches[n].utcDate,
                    home |-> matches[n].homeTeam, away |-> matches[n].awayTeam,
                    competition |-> matches[n].competition, status |-> <<"SCHEDULED">>]])

\* lines 83-100; obj.kind says what obj is: a DataFrame, a list, a dict
\* with a list under "matches", a dict with such a dict among its values,
\* anything else
_ensure_df(obj) ==
    IF obj.kind = "frame"
    THEN [cols |-> { obj.frame.columns[n] : n \in 1 .. Len(obj.frame.columns) },
          rows |-> obj.frame.rows]
    ELSE IF obj.kind = "list" THEN FrameOfRows(obj.rows)
    ELSE IF obj.kind \in {"payload", "nested"} THEN _normalise_fd_matches_payload(obj.matches)
    ELSE [cols |-> {}, rows |-> <<>>]

\* df.rename(columns=rename_map)
RenameKey(k) ==
    IF k = "utcDate" THEN "utc_date"
    ELSE IF k = "homeTeam" THEN "home"
    ELSE IF k = "awayTeam" THEN "away" ELSE k

Rename(df) ==
    [cols |-> { RenameKey(k) : k \in df.cols },
     rows |-> [n \in 1 .. Len(df.rows) |->
                 [c \in { RenameKey(k) : k \in df.cols } |->
                    df.rows[n][CHOOSE k \in df.cols : RenameKey(k) = c]]]]

\* lines 114-116: a column with a dict that has a name becomes the names
IsNamed(cell) == Len(cell) = 2
PullName(df, col) ==
    IF col \in df.cols /\ \E n \in 1 .. Len(df.rows) : IsNamed(df.rows[n][col])
    THEN [cols |-> df.cols,
          rows |-> [n \in 1 .. Len(df.rows) |->
                      [df.rows[n] EXCEPT ![col] = IF IsNamed(@) THEN <<@[2]>> ELSE @]]]
    ELSE df

\* lines 125-129: f"{utc_date}_{home[:3]}-{away[:3]}", the names of the
\* model having three letters at most
WithMatchId(df) ==
    IF "match_id" \notin df.cols \/ \A n \in 1 .. Len(df.rows) : df.rows[n].match_id = <<>>
    THEN [cols |-> df.cols \cup {"match_id"},
          rows |-> [n \in 1 .. Len(df.rows) |->
                      [c \in df.cols \cup {"match_id"} |->
                         IF c = "match_id"
                         THEN <<"gen", df.rows[n].utc_date, df.rows[n].home, df.rows[n].away>>
                         ELSE df.rows[n][c]]]]
    ELSE df

\* astype(str): None becomes the text "None"
AsStr(cell) == IF cell = <<>> THEN <<"None">> ELSE cell

\* df["utc_date"] >= today on the texts of the cells: an ISO date compares
\* as the day it names, and the "None" of an empty cell is above every date
FromToday(cell, today) == cell = <<>> \/ cell[1] >= today

RECURSIVE KeepFromToday(_, _, _)
KeepFromToday(rows, today, n) ==
    IF n = 0 THEN <<>>
    ELSE IF FromToday(rows[n].utc_date, today)
    THEN Append(KeepFromToday(rows, today, n - 1),
                [match_id |-> rows[n].match_id, utc_date |-> AsStr(rows[n].utc_date),
                 home |-> AsStr(rows[n].home), away |-> AsStr(rows[n].away)])
    ELSE KeepFromToday(rows, today, n - 1)

\* _finalise_fixtures_df(df, label) on the day today
_finalise_fixtures_df(df, today) ==
    Only({ IF {"utc_date", "home", "away"} \subseteq d.cols
           THEN Only({ [columns |-> FinalColumns,
                        rows |-> KeepFromToday(w.rows, today, Len(w.rows))] :
                         w \in { WithMatchId(d) } })
           ELSE [columns |-> FinalColumns, rows |-> <<>>] :
             d \in { PullName(PullName(Rename(df), "home"), "away") } })

\* what a strategy got from its collaborator: an object, or an exception
Got(fetched) ==
    IF fetched.raised # "None" THEN [raised |-> fetched.raised]
    ELSE IF "list" \in DOMAIN fetched
    THEN [raised |-> "None", obj |-> [kind |-> "list", rows |-> fetched.list]]
    ELSE [raised |-> "None", obj |-> [kind |-> "frame", frame |-> fetched.frame]]

\* _read_json(DATA_DIR / "fixtures.json") or []
ReadLocal(file) ==
    IF file.kind = "absent" THEN [raised |-> "None", obj |-> [kind |-> "list", rows |-> <<>>]]
    ELSE IF file.kind = "bad_json" THEN [raised |-> "JSONDecodeError"]
    ELSE [raised |-> "None", obj |-> file]

Strategy_returns_empty(loc, label, got, today) ==
    IF got.raised # "None"
    THEN [loc EXCEPT !.dbg.attempts = Append(@, [strategy |-> label, error |-> got.raised]),
                     !.tried = Append(@, label)]
    ELSE Only({ [loc EXCEPT !.dbg.attempts = Append(@, [strategy |-> label, rows |-> Len(df.rows)]),
                            !.tried = Append(@, label),
                            !.df = <<df>>] :
                  df \in { _finalise_fixtures_df(_ensure_df(got.obj), today) } })

\* one try block of lines 151-181 on the locals: the attempt it appends and
\* the frame it returns with, df being <<>> while none is returned
Strategy(loc, label, got, today) ==
    IF got.raised # "None"
    THEN [loc EXCEPT !.dbg.attempts = Append(@, [strategy |-> label, error |-> got.raised]),
                     !.tried = Append(@, label)]
    ELSE Only({ [loc EXCEPT !.dbg.attempts = Append(@, [strategy |-> label, rows |-> Len(df.rows)]),
                            !.tried = Append(@, label),
                            !.df = IF df.rows # <<>> THEN <<df>> ELSE <<>>] :
                  df \in { _finalise_fixtures_df(_ensure_df(got.obj), today) } })

\* the matches of the answers: one before today and one from today on
RobustMatches ==
    { <<>>,
      << [id |-> <<1>>, utcDate |-> <<0>>, homeTeam |-> <<"A">>, awayTeam |-> <<"B">>,
          competition |-> <<"PL">>] >>,
      << [id |-> <<1>>, utcDate |-> <<0>>, homeTeam |-> <<"A">>, awayTeam |-> <<"B">>,
          competition |-> <<"PL">>],
         [id |-> <<2>>, utcDate |-> <<2>>, homeTeam |-> <<>>, awayTeam |-> <<"A">>,
          competition |-> <<"PL">>] >> }

RobustResponses ==
    [kind : {"ok"}, matches : RobustMatches]
    \cup [kind : {"status_error", "http_error", "connection_error"}, matches : {<<>>}]

\* data/fixtures.json: absent, not JSON, a list of rows under our names or
\* under the names of the API, a list without the away side, the raw
\* answer of the API, a dict of something else
LocalFiles ==
    { [kind |-> "absent"], [kind |-> "bad_json"], [kind |-> "other"],
      [kind |-> "list", rows |-> <<>>],
      [kind |-> "list",
       rows |-> << [utc_date |-> <<2>>, home |-> <<"A">>, away |-> <<"B">>] >>],
      [kind |-> "list",
       rows |-> << [utcDate |-> <<1>>, homeTeam |-> <<"name", "A">>, awayTeam |-> <<"name", "B">>],
                   [utcDate |-> <<0>>, homeTeam |-> <<"name", "B">>, awayTeam |-> <<"name", "A">>] >>],
      [kind |-> "list", rows |-> << [utc_date |-> <<2>>, home |-> <<"A">>] >>],
      [kind |-> "payload", matches |-> CHOOSE m \in RobustMatches : Len(m) = 2],
      [kind |-> "nested", matches |-> CHOOSE m \in RobustMatches : Len(m) = 1] }

InitRobust ==
    /\ pc = "modern"
    /\ call \in [fn : {"fetch_fixtures_robust"}, modern : RobustResponses,
                 legacy : RobustResponses, local : LocalFiles]
    /\ ret = [df |-> <<>>, dbg |-> [attempts |-> <<>>], tried |-> <<>>]
    /\ clock = 1
    /\ dc = Idle
    /\ grid = Idle
    /\ elo = Idle

\* lines 151-158, and on to the next strategy unless the frame has rows
TryModern ==
    /\ pc = "modern"
    /\ ret' = Strategy(ret, "modern", Got(fetch_fixtures(FALSE, call.modern)), clock)
    /\ pc' = IF ret'.df # <<>> THEN "returned" ELSE "legacy-league"
    /\ UNCHANGED <<call, dc, grid, elo, clock>>

\* lines 161-171
TryLegacy ==
    /\ pc = "legacy-league"
    /\ ret' = Strategy(ret, "legacy-league", Got(fetch_fixtures(TRUE, call.legacy)), clock)
    /\ pc' = IF ret'.df # <<>> THEN "returned" ELSE "local-file"
    /\ UNCHANGED <<call, dc, grid, elo, clock>>

\* lines 174-184: the local file, and the empty frame when it gives nothing
TryLocal ==
    /\ pc = "local-file"
    /\ ret' = Only({ IF loc.df # <<>> THEN loc
                     ELSE [loc EXCEPT !.df = << [columns |-> FinalColumns, rows |-> <<>>] >>] :
                       loc \in { Strategy(ret, "local-file", ReadLocal(call.local), clock) } })
    /\ pc' = "returned"
    /\ UNCHANGED <<call, dc, grid, elo, clock>>

NextRobust == TryModern \/ TryLegacy \/ TryLocal

SpecRobust == InitRobust /\ [][NextRobust]_vars

(***************************************************************************)
(* scripts/evaluate_backtest.py: read_history and the loop of main over    *)
(* the finished matches.  Time is counted in half days, so that t \div 2   *)
(* is the date of t; a snapshot is its generated_utc and its predictions.  *)
(***************************************************************************)
\* lines 37-40, on the names of the model
_norm(n) ==
    IF n = <<>> THEN "Unknown"
    ELSE IF n[1] \in {"A FC", "A"} THEN "A"
    ELSE IF n[1] \in {"B FC", "B"} THEN "B"
    ELSE n[1]

DateOf(t) == t \div 2

\* out.sort(key=lambda x: x[0]): by insertion, equal stamps keep their order
RECURSIVE SortByStamp(_)
SortByStamp(s) ==
    IF s = <<>> THEN <<>>
    ELSE LET rest == SortByStamp(SubSeq(s, 1, Len(s) - 1))
             x == s[Len(s)]
             k == Cardinality({ n \in 1 .. Len(rest) : rest[n].ts <= x.ts })
         IN  SubSeq(rest, 1, k) \o <<x>> \o SubSeq(rest, k + 1, Len(rest))

read_history(files) == SortByStamp(files)

\* lines 89-100: the entries of all batches in order, each with its stamp
RECURSIVE Entries(_, _)
Entries(batches, n) ==
    IF n = 0 THEN <<>>
    ELSE Entries(batches, n - 1)
           \o [k \in 1 .. Len(batches[n].preds) |-> [ts |-> batches[n].ts, p |-> batches[n].preds[k]]]

\* lines 119-124 and 128-133: the scan of a list of entries, keeping the
\* entry of the latest stamp before the kickoff, the first one among equals
RECURSIVE Scan(_, _, _, _)
Scan_at_kickoff(entries, ko, best, n) ==
    IF n > Len(entries) THEN best
    ELSE Scan(entries, ko,
              IF entries[n].ts <= ko /\ (best = <<>> \/ entries[n].ts > best[1].ts)
              THEN <<entries[n]>> ELSE best,
              n + 1)

Scan(entries, ko, best, n) ==
    IF n > Len(entries) THEN best
    ELSE Scan(entries, ko,
              IF entries[n].ts < ko /\ (best = <<>> \/ entries[n].ts > best[1].ts)
              THEN <<entries[n]>> ELSE best,
              n + 1)

\* index_by_fd[fd_id], and the entries of index_by_name that pass line 129
ByFd(entries, fd_id) ==
    SelectSeq(entries, LAMBDA e : fd_id # <<>> /\ e.p.fd_id = fd_id)

ByName(entries, m) ==
    SelectSeq(entries,
              LAMBDA e : /\ e.p.kickoff_utc # <<>>
                         /\ _norm(e.p.home) = _norm(m.homeTeam)
                         /\ _norm(e.p.away) = _norm(m.awayTeam)
                         /\ DateOf(e.p.kickoff_utc[1]) = DateOf(m.utcDate[1]))

\* lines 115-133: the candidate of a finished match, <<>> when there is none
Candidate(entries, m) ==
    Only({ IF byfd # <<>> THEN byfd ELSE Scan(ByName(entries, m), m.utcDate[1], <<>>, 1) :
             byfd \in { Scan(ByFd(entries, m.id), m.utcDate[1], <<>>, 1) } })

\* lines 105-153: one turn of the loop, on the rows so far
ScoreTurn(rows, entries, m) ==
    IF m.fullTime[1] = <<>> \/ m.fullTime[2] = <<>> THEN rows
    ELSE Only({ IF cand = <<>> THEN rows
                ELSE Append(rows, [batch_ts |-> cand[1].ts, kickoff_utc |-> m.utcDate[1],
                                   home |-> _norm(m.homeTeam), away |-> _norm(m.awayTeam),
                                   gh |-> m.fullTime[1][1], ga |-> m.fullTime[2][1],
                                   probs |-> cand[1].p.probs]) :
                  cand \in { Candidate(entries, m) } })

\* the predictions of the snapshots of the model
Prediction(fd, ko, h, a, probs) ==
    [fd_id |-> fd, kickoff_utc |-> ko, home |-> <<h>>, away |-> <<a>>, probs |-> probs]

Predictions ==
    { Prediction(<<1>>, <<4>>, "A FC", "B", "p"),
      Prediction(<<1>>, <<4>>, "A FC", "B", "q"),
      Prediction(<<>>, <<5>>, "A", "B FC", "p"),
      Prediction(<<>>, <<5>>, "A", "B", "q"),
      Prediction(<<>>, <<7>>, "A", "B", "p"),
      Prediction(<<2>>, <<4>>, "A", "B", "q"),
      Prediction(<<>>, <<>>, "A", "B", "p"),
      Prediction(<<>>, <<4>>, "B", "A", "p") }

MaxSnapshots == 2

Stamps == { 2, 4, 6 }

Snapshots ==
    [ts : Stamps, preds : {<<>>} \cup { <<p>> : p \in Predictions }]
    \cup { [ts |-> 2, preds |-> << Prediction(<<>>, <<5>>, "A", "B", "q"),
                                   Prediction(<<1>>, <<4>>, "A FC", "B", "p") >>] }

Finished(id, ko, h, a, ft) ==
    [id |-> <<id>>, utcDate |-> <<ko>>, homeTeam |-> <<h>>, awayTeam |-> <<a>>, fullTime |-> ft]

FinishedLists ==
    { <<>>,
      << Finished(1, 4, "A FC", "B FC", << <<2>>, <<1>> >>) >>,
      << Finished(1, 5, "A", "B", << <<0>>, <<0>> >>) >>,
      << Finished(3, 4, "A", "B", << <<>>, <<>> >>),
         Finished(1, 4, "A", "B", << <<1>>, <<3>> >>) >> }

InitBacktest ==
    /\ pc = "read_history"
    /\ call \in [fn : {"evaluate_backtest"},
                 files : UNION { [1 .. n -> Snapshots] : n \in 0 .. MaxSnapshots },
                 finished : FinishedLists]
    /\ elo = Idle
    /\ ret = Idle
    /\ dc = Idle
    /\ grid = Idle
    /\ clock = Idle

\* lines 73-86: no snapshot, the empty shells are written
NoHistory ==
    /\ pc = "read_history"
    /\ read_history(call.files) = <<>>
    /\ ret' = [rows |-> <<>>, header_only |-> TRUE]
    /\ pc' = "returned"
    /\ UNCHANGED <<call, dc, grid, elo, clock>>

\* lines 73 and 88-103: the batches, the indices and the finished matches
BuildIndices ==
    /\ pc = "read_history"
    /\ read_history(call.files) # <<>>
    /\ elo' = [batches |-> read_history(call.files),
               entries |-> Entries(read_history(call.files), Len(call.files)),
               finished |-> call.finished, i |-> 1, rows |-> <<>>]
    /\ pc' = "matches"
    /\ UNCHANGED <<call, ret, dc, grid, clock>>

\* one turn of the loop of lines 104-153
ScoreMatch ==
    /\ pc = "matches"
    /\ elo.i <= Len(elo.finished)
    /\ elo' = [elo EXCEPT !.rows = ScoreTurn(elo.rows, elo.entries, elo.finished[elo.i]),
                          !.i = elo.i + 1]
    /\ UNCHANGED <<pc, call, ret, dc, grid, clock>>

\* lines 155-162: the rows are written
WriteRows ==
    /\ pc = "matches"
    /\ elo.i > Len(elo.finished)
    /\ ret' = [rows |-> elo.rows, header_only |-> FALSE]
    /\ pc' = "returned"
    /\ UNCHANGED <<call, dc, grid, elo, clock>>

NextBacktest == NoHistory \/ BuildIndices \/ ScoreMatch \/ WriteRows

SpecBacktest == InitBacktest /\ [][NextBacktest]_vars

(***************************************************************************)
(* Claims about PoissonDC.build_grid                                       *)
(***************************************************************************)
GridCells == (0 .. dc.max_goals) \X (0 .. dc.max_goals)
Built == pc \in {"grid", "derived"}
DrawOf(M) == probs_from_grid(M, dc.max_goals)[2]

TauFactor(c, lam, mu, rho) ==
    IF c = <<0, 0>> THEN RMax(Zero, RSub(OneR, RMul(RMul(lam, mu), rho)))
    ELSE IF c = <<0, 1>> THEN RMax(Zero, RAdd(OneR, RMul(lam, rho)))
    ELSE IF c = <<1, 0>> THEN RMax(Zero, RAdd(OneR, RMul(mu, rho)))
    ELSE IF c = <<1, 1>> THEN RMax(Zero, RSub(OneR, rho))
    ELSE OneR

\* the factor the original C7 names for a cell
PlainFactor(c, rho) ==
    IF c \in {<<0, 0>>, <<1, 1>>} THEN RAdd(OneR, rho)
    ELSE IF c \in {<<0, 1>>, <<1, 0>>} THEN RSub(OneR, rho)
    ELSE OneR

\* M is T divided by T's total
IsRenormOf(M, T) ==
    /\ RLt(Zero, GridSum(T, dc.max_goals))
    /\ \A c \in GridCells : M[c] = RDiv(T[c], GridSum(T, dc.max_goals))

\* C7 as stated: the Dixon-Coles step multiplies (0,0) and (1,1) by 1+rho,
\* (0,1) and (1,0) by 1-rho, leaves the other cells of the independent grid
\* unmultiplied, then renormalises the whole grid.
C7_PlainFactors ==
    Built =>
        /\ \A c \in GridCells :
              grid.adjusted[c] = RMul(grid.outer[c], PlainFactor(c, dc.rho))
        /\ IsRenormOf(grid.M, grid.adjusted)

\* C7 amended: the step multiplies (0,0) by max(0, 1 - lam*mu*rho), (0,1) by
\* max(0, 1 + lam*rho), (1,0) by max(0, 1 + mu*rho) and (1,1) by
\* max(0, 1 - rho), leaves every other cell unmultiplied, and renormalises
\* the whole grid (the unadjusted grid when the adjusted total is <= 0).
C7_TauFactors ==
    Built =>
        /\ \A c \in GridCells :
              grid.adjusted[c] = RMul(grid.outer[c], TauFactor(c, grid.lam, grid.mu, dc.rho))
        /\ grid.fallback = RLe(GridSum(grid.adjusted, dc.max_goals), Zero)
        /\ IsRenormOf(grid.M, IF grid.fallback THEN grid.outer ELSE grid.adjusted)

\* C7 witness: a grid whose four low-score cells were all multiplied by a
\* factor other than 1 and which was then renormalised.
C7_Witness ==
    /\ pc = "grid"
    /\ dc.max_goals >= 2
    /\ ~grid.fallback
    /\ \A c \in AdjCells : grid.adjusted[c] # grid.outer[c]
    /\ grid.M[<<2, 2>>] = RDiv(grid.outer[<<2, 2>>], grid.M_sum)

\* C8 as stated: with rho < 0 the draw probability and the (0,0) cell of the
\* returned grid are at least those of the independent grid for the same
\* lam and mu; with rho > 0 they are no larger.
C8_LowScoreMass ==
    Built =>
        /\ RLt(dc.rho, Zero) =>
              /\ RLe(DrawOf(grid.outer), DrawOf(grid.M))
              /\ RLe(grid.outer[<<0, 0>>], grid.M[<<0, 0>>])
        /\ RLt(Zero, dc.rho) =>
              /\ RLe(DrawOf(grid.M), DrawOf(grid.outer))
              /\ RLe(grid.M[<<0, 0>>], grid.outer[<<0, 0>>])

\* neither off-diagonal factor 1 + lam*rho, 1 + mu*rho is clipped at 0
NoOffDiagonalClip ==
    /\ RLe(Zero, RAdd(OneR, RMul(grid.lam, dc.rho)))
    /\ RLe(Zero, RAdd(OneR, RMul(grid.mu, dc.rho)))

\* C8 amended: with rho < 0 the draw probability is at least that of the
\* independent grid, and so is the (0,0) cell whenever neither 1 + lam*rho
\* nor 1 + mu*rho is clipped at 0; with rho > 0 both are no larger.
C8_LowScoreMassUnclipped ==
    Built =>
        /\ RLt(dc.rho, Zero) =>
              /\ RLe(DrawOf(grid.outer), DrawOf(grid.M))
              /\ NoOffDiagonalClip => RLe(grid.outer[<<0, 0>>], grid.M[<<0, 0>>])
        /\ RLt(Zero, dc.rho) =>
              /\ RLe(DrawOf(grid.M), DrawOf(grid.outer))
              /\ RLe(grid.M[<<0, 0>>], grid.outer[<<0, 0>>])

\* C8 witness: rho = -0.10 (the default), nothing clipped, and both the draw
\* probability and the (0,0) cell strictly above the independent grid's.
C8_Witness ==
    /\ pc = "grid"
    /\ dc.rho = <<-1, 10>>
    /\ dc.max_goals >= 1
    /\ NoOffDiagonalClip
    /\ RLt(DrawOf(grid.outer), DrawOf(grid.M))
    /\ RLt(grid.outer[<<0, 0>>], grid.M[<<0, 0>>])

(***************************************************************************)
(* Claims about plpred.elo and core_generate                               *)
(***************************************************************************)
RECURSIVE SumOver(_, _)
SumOver(f, S) ==
    IF S = {} THEN 0
    ELSE LET t == CHOOSE x \in S : TRUE IN f[t] + SumOver(f, S \ {t})

\* build_elo has sorted its rows and is replaying them, or has replayed them
Replaying ==
    \/ pc = "replay"
    \/ (pc = "returned" /\ call.fn = "build_elo" /\ call.df # <<>>
         /\ RequiredColumns \subseteq call.columns)

\* C1: build_elo is zero-sum: whatever the home and away names of the rows
\* replayed so far, the ratings of the teams in the table add up to init
\* times the number of teams.
C1_ZeroSum ==
    Replaying =>
        SumOver(elo.ratings, DOMAIN elo.ratings)
            = DEFAULT_INIT * EloUnit * Cardinality(DOMAIN elo.ratings)

\* the arrangement a stable sort by kick_dt gives: ties in input order
StableOrder(df, now) ==
    CHOOSE p \in SortValues(df, now) :
        \A m, n \in 1 .. Len(df) :
            (m < n /\ KickDt(df, now)[p[m]] = KickDt(df, now)[p[n]]) => p[m] < p[n]

\* the whole loop, from the locals loc on
RECURSIVE ReplayAll(_, _)
ReplayAll(loc, half_life_days) ==
    IF loc.i > Len(loc.df) THEN loc
    ELSE ReplayAll(ReplayRow(loc, half_life_days), half_life_days)

StableTable(df, now, half_life_days) ==
    LET loc == ReplayAll(Locals(df, StableOrder(df, now), now), half_life_days)
    IN  EloTable(loc.draw_nu, loc.ratings, loc.games_count)

\* C2: build_elo replays the rows by ascending kickoff date, rows of equal
\* kickoff date in their input order, so the table it returns is the one
\* that replay gives.
C2_StableDateOrder ==
    (pc = "returned" /\ call.fn = "build_elo" /\ call.df # <<>>
     /\ RequiredColumns \subseteq call.columns) =>
        ret = StableTable(call.df, clock, call.half_life_days)

InUnit(x) == RLe(Zero, x) /\ RLe(x, OneR)

\* C3: elo_match_probs returns a triple with every component in [0, 1] and
\* sum 1, and exactly (1/3, 1/3, 1/3) when r + 1 + nu * sqrt(r) <= 0.
C3_EloTriple ==
    (pc = "returned" /\ call.fn = "elo_match_probs") =>
        /\ ret.raised = "None"
        /\ Len(ret.value) = 3
        /\ \A n \in 1 .. 3 : InUnit(ret.value[n])
        /\ RAdd(RAdd(ret.value[1], ret.value[2]), ret.value[3]) = OneR
        /\ LET r == Pow10(RDiv(R((call.elo_h + call.home_adv_points) - call.elo_a),
                                RMax(call.scale, <<1, 1000000>>))).value
           IN  RLe(Denom(r, call.draw_nu), Zero) => ret.value = Thirds

Returned(fn) == pc = "returned" /\ call.fn = fn

\* C4: outcome_probs returns (P_home, P_draw, P_away) with each component in
\* [0, 1] and the three summing to 1 within the tolerance 0.01, on the path
\* with draw_scale = 1.0 and on the rescaling path.
C4_OutcomeTriple ==
    Returned("outcome_probs") =>
        /\ \A n \in 1 .. 3 : 0 <= ret[n] /\ ret[n] <= PUNIT
        /\ Abs(ret[1] + ret[2] + ret[3] - PUNIT) <= PUNIT \div 100

NonIncreasing(rows) == \A n \in 1 .. Len(rows) - 1 : rows[n].prob >= rows[n + 1].prob

NoDuplicatePair(rows) ==
    \A m, n \in 1 .. Len(rows) :
        (rows[m].home_goals = rows[n].home_goals /\ rows[m].away_goals = rows[n].away_goals) => m = n

ScorelineKeys(rows) ==
    \A n \in 1 .. Len(rows) : DOMAIN rows[n] = {"home_goals", "away_goals", "prob"}

\* C9 as stated: top_scorelines returns exactly k entries, by non-increasing
\* probability, no (home_goals, away_goals) pair twice, each entry with the
\* keys home_goals, away_goals and prob, for every k >= 1 and cap >= 0.
C9_ExactlyK ==
    Returned("top_scorelines") =>
        /\ Len(ret) = call.k
        /\ NonIncreasing(ret) /\ NoDuplicatePair(ret) /\ ScorelineKeys(ret)

\* C9 amended: top_scorelines returns exactly min(k, (cap+1)^2) entries, by
\* non-increasing probability, no pair twice, each with the three keys.
C9_MinKCells ==
    Returned("top_scorelines") =>
        /\ Len(ret) = Min(call.k, (call.cap + 1) * (call.cap + 1))
        /\ NonIncreasing(ret) /\ NoDuplicatePair(ret) /\ ScorelineKeys(ret)

\* C9 witness: three scorelines out of a 2 x 2 grid, the first strictly more
\* likely than the last.
C9_Witness ==
    /\ Returned("top_scorelines")
    /\ call.cap = 1 /\ call.k = 3
    /\ Len(ret) = 3
    /\ ret[1].prob > ret[3].prob

\* x goes before y under the tie-break of C10: lower total goals, then fewer
\* home goals
TieBreakBefore(x, y) ==
    \/ x.home_goals + x.away_goals < y.home_goals + y.away_goals
    \/ /\ x.home_goals + x.away_goals = y.home_goals + y.away_goals
       /\ x.home_goals < y.home_goals

\* C10: of two scorelines of equal probability, top_scorelines places the
\* one with the lower total goals first and, among equal totals, the one
\* with fewer home goals first (here: PoissonDC.top_scorelines).
C10_TieBreak ==
    (pc = "derived" /\ call.fn = "top_scorelines") =>
        \A n \in 1 .. Len(ret) - 1 :
            ret[n].prob = ret[n + 1].prob => TieBreakBefore(ret[n], ret[n + 1])


(***************************************************************************)
(* Claims about plpred.ratings.build_ratings and the tables of build_elo   *)
(***************************************************************************)
\* the call has returned a table (it did not end in an exception)
ReturnedTable(fn) ==
    /\ pc = "returned"
    /\ call.fn = fn
    /\ "teams" \in DOMAIN ret

Raised == pc = "returned" /\ "teams" \notin DOMAIN ret

\* C11: build_ratings on a dataset with zero matches never raises and returns
\* an empty teams table with league_avg_gpg = 1.35 > 0, home_adv = 1.10 and
\* draw_scale = 1.00; build_elo on an empty dataset returns an empty teams
\* table with its parameters init, scale, k_base and home_adv_points echoed.
\* (The weights are clipped to at least 0.05, so no dataset with a match has
\* total weight zero.)
C11_EmptyIsNeutral ==
    (pc = "returned" /\ call.fn \in {"build_ratings", "build_elo"} /\ call.df = <<>>) =>
        /\ ~Raised
        /\ ret.teams = <<>>
        /\ call.fn = "build_ratings" =>
              /\ ret.league_avg_gpg = <<27, 20>>
              /\ RLt(Zero, ret.league_avg_gpg)
              /\ ret.home_adv = <<11, 10>>
              /\ ret.draw_scale = <<1, 1>>
        /\ call.fn = "build_elo" =>
              /\ ret.init = 1500
              /\ ret.scale = 400
              /\ ret.k_base = 20
              /\ ret.home_adv_points = 60

C11_Witness ==
    /\ ReturnedTable("build_ratings")
    /\ call.df = <<>>
    /\ call.columns # RequiredColumns
    /\ ret.teams = <<>>

Factors == {"att", "def", "att_home", "def_home", "att_away", "def_away"}

Between(x, lo, hi) == RLe(lo, x) /\ RLe(x, hi)

\* every factor of every team in [0.5, 1.9], draw_scale in [0.9, 1.1]
InBands ==
    /\ \A t \in DOMAIN ret.teams : \A k \in Factors :
          Between(ret.teams[t][k], <<1, 2>>, <<19, 10>>)
    /\ Between(ret.draw_scale, <<9, 10>>, <<11, 10>>)

\* C13 as stated: for every dataset and every parameter setting, every
\* attack/defence factor lies in [0.5, 1.9], home_adv is >= 1.0 and at most
\* the configured maximum, and draw_scale lies in [0.9, 1.1].
C13_Bands ==
    (ReturnedTable("build_ratings") /\ call.df # <<>>) =>
        /\ InBands
        /\ Between(ret.home_adv, <<1, 1>>, call.home_adv.max)

\* what lines 57-60 and 119-138 do guarantee: the bands of the factors and of
\* draw_scale, and home_adv between min(min_home_adv, max_home_adv) and
\* max_home_adv (to the three decimals it is rounded to)
BandsWithinConfigured ==
    (ReturnedTable("build_ratings") /\ call.df # <<>>) =>
        /\ InBands
        /\ Between(ret.home_adv,
                   Round(RMin(call.home_adv.min, call.home_adv.max), 3),
                   Round(call.home_adv.max, 3))
        /\ (RLe(OneR, call.home_adv.min) /\ RLe(OneR, call.home_adv.max)) =>
              RLe(OneR, ret.home_adv)

\* the table the call in progress returns when it runs at time now (for
\* build_elo on a frame of at most one row)
TableAt(now) ==
    IF call.fn = "build_ratings"
    THEN build_ratings(call.df, now, call.half_life_days, call.home_adv.max, call.home_adv.min)
    ELSE StableTable(call.df, now, call.half_life_days)

CallTimes == IF call.fn = "build_ratings" THEN RatingClocks ELSE Clocks

ReturnedFromRows ==
    /\ pc = "returned"
    /\ call.fn \in {"build_ratings", "build_elo"}
    /\ call.df # <<>>
    /\ ~Raised

\* C14: build_ratings and build_elo are functions of the dataset and the
\* parameters alone: the table a call returns is the table the same call
\* returns at any other time.
C14_TimeIndependent ==
    ReturnedFromRows => \A now \in CallTimes : TableAt(now) = ret

\* what holds: two calls at the same time agree, and without a half-life
\* (half_life_days <= 0) the time of the call has no effect
SameWithoutDecay ==
    ReturnedFromRows =>
        /\ TableAt(clock) = ret
        /\ call.half_life_days <= 0 => \A now \in CallTimes : TableAt(now) = ret

(***************************************************************************)
(* Claims about the draw parameter of build_elo                            *)
(***************************************************************************)
\* the fraction of drawn rows of a frame, clamped into [0.15, 0.35]
ClampedDrawRate(df) ==
    LET drawn == { n \in 1 .. Len(df) : df[n].home_goals = df[n].away_goals }
        r == <<Cardinality(drawn), Len(df)>>
    IN  IF RLt(r, <<3, 20>>) THEN <<3, 20>> ELSE IF RLt(<<7, 20>>, r) THEN <<7, 20>> ELSE r

\* the rows of df in the arrangement p
Arranged(df, p) == [n \in 1 .. Len(df) |-> df[p[n]]]

Arrangements(df) ==
    { p \in [1 .. Len(df) -> 1 .. Len(df)] : \A m, n \in 1 .. Len(df) : m # n => p[m] # p[n] }

\* C19: for every non-empty dataset the draw_nu of build_elo is 2r / (1 - r),
\* r the fraction of drawn matches clamped into [0.15, 0.35]: 6/17 for a
\* dataset without a draw, 14/13 for a dataset of draws only, and the same
\* value for every order of the rows.
C19_DrawNu ==
    (ReturnedTable("build_elo") /\ call.df # <<>>) =>
        LET r == ClampedDrawRate(call.df)
            nu == ret.draw_nu
        IN  /\ RMul(nu, RSub(OneR, r)) = RMul(<<2, 1>>, r)
            /\ (\A n \in 1 .. Len(call.df) : call.df[n].home_goals # call.df[n].away_goals)
                  => nu = <<6, 17>>
            /\ (\A n \in 1 .. Len(call.df) : call.df[n].home_goals = call.df[n].away_goals)
                  => nu = <<14, 13>>
            /\ \A p \in Arrangements(call.df) : DrawNu(Arranged(call.df, p)) = nu

\* one draw in three matches: r = 1/3 is not clamped and draw_nu is 1
C19_Witness ==
    /\ pc = "returned"
    /\ call.fn = "build_elo"
    /\ Len(call.df) = 3
    /\ call.df[2].home_goals = call.df[2].away_goals
    /\ ClampedDrawRate(call.df) = <<1, 3>>
    /\ ret.draw_nu = <<1, 1>>

(***************************************************************************)
(* Claims about the schema of the frame                                    *)
(***************************************************************************)
\* C20: when a required column (utc_date, home, away, home_goals,
\* away_goals) is missing from the frame, build_ratings and build_elo end in
\* an error and return no table, whatever rows the frame holds; a frame
\* with an extra column gives the table the frame without it gives.
C20_SchemaError ==
    (pc = "returned" /\ call.fn \in {"build_ratings", "build_elo"}) =>
        /\ ~(RequiredColumns \subseteq call.columns) => Raised
        /\ (RequiredColumns \subseteq call.columns /\ call.df # <<>>) =>
              (~Raised /\ ret = TableAt(clock))

\* what holds: the error is raised for every frame that has a row
SchemaErrorWithRows ==
    (pc = "returned" /\ call.fn \in {"build_ratings", "build_elo"} /\ call.df # <<>>) =>
        /\ ~(RequiredColumns \subseteq call.columns) => ret = [raised |-> "KeyError"]
        /\ RequiredColumns \subseteq call.columns => (~Raised /\ ret = TableAt(clock))

(***************************************************************************)
(* Claims about canon_team and resolve_team_key                            *)
(***************************************************************************)
\* tok is one of the space-separated tokens of s
HasToken(s, tok) ==
    \E p \in 1 .. Len(s) :
        /\ HasAt(s, p, tok)
        /\ (p = 1 \/ s[p - 1] = " ")
        /\ (p + Len(tok) > Len(s) \/ s[p + Len(tok)] = " ")

\* lowercase [a-z0-9] tokens separated by single spaces, no space at either end
CanonShaped(s) ==
    /\ \A p \in 1 .. Len(s) : IsAlnum(s[p]) \/ s[p] = " "
    /\ s # <<>> => (s[1] # " " /\ s[Len(s)] # " ")
    /\ \A p \in 1 .. Len(s) - 1 : ~(s[p] = " " /\ s[p + 1] = " ")

\* C16: for every name, canon_team returns lowercase [a-z0-9] tokens
\* separated by single spaces with no space at either end, "&" folded to
\* "and", no token "fc" or "afc" left, and canon_team(canon_team(x)) =
\* canon_team(x).
C16_Canonical ==
    (pc = "returned" /\ call.fn = "canon_team") =>
        /\ CanonShaped(ret)
        /\ ret = canon_team(ReplaceAmp(call.name))
        /\ ~HasToken(ret, <<"f", "c">>)
        /\ ~HasToken(ret, <<"a", "f", "c">>)
        /\ canon_team(ret) = ret

\* what holds: the shape and the folding of "&" for every name; no "fc" or
\* "afc" token and idempotence for the names without an underscore
CanonicalWithoutUnderscore ==
    (pc = "returned" /\ call.fn = "canon_team") =>
        /\ CanonShaped(ret)
        /\ ret = canon_team(ReplaceAmp(call.name))
        /\ (\A p \in 1 .. Len(call.name) : call.name[p] # "_") =>
              /\ ~HasToken(ret, <<"f", "c">>)
              /\ ~HasToken(ret, <<"a", "f", "c">>)
              /\ canon_team(ret) = ret


\* the keys of the table of the call in table order, the canonical form of
\* the name of the call, and the token overlap of a key with it
CallKeys == [n \in 1 .. Len(TeamsOfRatings(call.ratings)) |-> TeamsOfRatings(call.ratings)[n].key]

CallCanon == canon_team(call.name)

Overlap(k) == Cardinality(Tokens(CallCanon) \cap Tokens(canon_team(k)))

\* the first key in table order with the largest overlap
FirstBest ==
    CallKeys[CHOOSE n \in 1 .. Len(CallKeys) :
                /\ \A m \in 1 .. Len(CallKeys) : Overlap(CallKeys[m]) <= Overlap(CallKeys[n])
                /\ \A m \in 1 .. n - 1 : Overlap(CallKeys[m]) < Overlap(CallKeys[n])]

\* the last key in table order with the canonical form c
LastWithCanon(c) ==
    CallKeys[CHOOSE n \in 1 .. Len(CallKeys) :
                /\ canon_team(CallKeys[n]) = c
                /\ \A m \in n + 1 .. Len(CallKeys) : canon_team(CallKeys[m]) # c]

Resolved == pc = "returned" /\ call.fn = "resolve_team_key"

\* C15: resolve_team_key returns (key, "direct") when the canonical form of
\* the name equals the canonical form of a table key; otherwise the table
\* key whose canonical tokens overlap most with the name's, ties going to
\* the key seen first in table order, with method "token-match" when the
\* overlap is > 0; otherwise (None, "unmatched").
C15_Resolution ==
    Resolved =>
        IF \E n \in 1 .. Len(CallKeys) : canon_team(CallKeys[n]) = CallCanon
        THEN /\ ret.how = "direct"
             /\ \E n \in 1 .. Len(CallKeys) :
                    ret.key = <<CallKeys[n]>> /\ canon_team(CallKeys[n]) = CallCanon
        ELSE IF \E n \in 1 .. Len(CallKeys) : Overlap(CallKeys[n]) > 0
        THEN ret = [key |-> <<FirstBest>>, how |-> "token-match"]
        ELSE ret = [key |-> <<>>, how |-> "unmatched"]

\* C15, amended: an empty or missing table gives (None,
\* "no-teams-in-ratings"); otherwise the three cases of C15, where the key
\* returned for a canonical form that several table keys share is the last
\* of them in table order.
C15_ResolutionAmended ==
    Resolved =>
        IF CallKeys = <<>>
        THEN ret = [key |-> <<>>, how |-> "no-teams-in-ratings"]
        ELSE IF \E n \in 1 .. Len(CallKeys) : canon_team(CallKeys[n]) = CallCanon
        THEN ret = [key |-> <<LastWithCanon(CallCanon)>>, how |-> "direct"]
        ELSE IF \E n \in 1 .. Len(CallKeys) : Overlap(CallKeys[n]) > 0
        THEN ret = [key |-> <<LastWithCanon(canon_team(FirstBest))>>, how |-> "token-match"]
        ELSE ret = [key |-> <<>>, how |-> "unmatched"]

\* a token match decided by the table order: two keys of different
\* canonical forms overlap the name equally, and the first is returned
C15_Witness ==
    /\ Resolved
    /\ ret.how = "token-match"
    /\ Len(CallKeys) = 2
    /\ canon_team(CallKeys[1]) # canon_team(CallKeys[2])
    /\ Overlap(CallKeys[1]) = Overlap(CallKeys[2])
    /\ ret.key = <<CallKeys[1]>>

(***************************************************************************)
(* Claims about expected_goals_for_pair and the rates of the prediction    *)
(* paths                                                                   *)
(***************************************************************************)
PairReturned == pc = "returned" /\ call.fn = "expected_goals_for_pair"

\* the league baselines the call is made with
BaseHome == Get(call.ratings.xg, "base_home_xg", Get(call.ratings.xg, "league_home_xg", <<29, 20>>))

BaseAway == Get(call.ratings.xg, "base_away_xg", Get(call.ratings.xg, "league_away_xg", <<27, 20>>))

\* the factors of a side: all six 1.0 when its key is None, the factors of
\* its table entry otherwise
SideFactors(key) ==
    IF key = <<>>
    THEN [att |-> <<1, 1>>, deff |-> <<1, 1>>, att_h |-> <<1, 1>>, deff_h |-> <<1, 1>>,
          att_a |-> <<1, 1>>, deff_a |-> <<1, 1>>]
    ELSE _get_strengths(key, call.ratings)

\* C17: for any home and away names, expected_goals_for_pair does not
\* raise; a side that cannot be resolved enters the two rates with all six
\* factors 1.0; the resolution method of each side is in the debug note,
\* and build_predictions attaches it to the notes of the prediction.
C17_NeutralWhenUnresolved ==
    /\ PairReturned =>
          /\ DOMAIN ret = {"lam_h", "lam_a", "debug"}
          /\ ret.debug.resolve_home = resolve_team_key(call.home_name, call.ratings).how
          /\ ret.debug.resolve_away = resolve_team_key(call.away_name, call.ratings).how
          /\ ret.debug.home_key = resolve_team_key(call.home_name, call.ratings).key
          /\ ret.debug.away_key = resolve_team_key(call.away_name, call.ratings).key
          /\ ret.lam_h = SanityCap(RDiv(RMul(BaseHome, SideFactors(ret.debug.home_key).att_h),
                                        RMax(SideFactors(ret.debug.away_key).deff_a, Tiny)))
          /\ ret.lam_a = SanityCap(RDiv(RMul(BaseAway, SideFactors(ret.debug.away_key).att_a),
                                        RMax(SideFactors(ret.debug.home_key).deff_h, Tiny)))
    /\ (pc = "returned" /\ call.fn = "build_predictions") =>
          /\ DOMAIN ret = {"predictions", "name_resolution"}
          /\ Len(ret.predictions) = Len(call.fixtures)
          /\ \A n \in 1 .. Len(call.fixtures) :
                /\ ret.predictions[n].notes.resolve.home =
                       resolve_team_key(call.fixtures[n].home, call.ratings).how
                /\ ret.predictions[n].notes.resolve.away =
                       resolve_team_key(call.fixtures[n].away, call.ratings).how
                /\ ret.name_resolution.examples[n].resolve_home =
                       ret.predictions[n].notes.resolve.home
                /\ ret.name_resolution.examples[n].resolve_away =
                       ret.predictions[n].notes.resolve.away

\* an unknown home side against a resolved away side whose factors are not
\* neutral: the home side enters with 1.0, the away side with its own
C17_Witness ==
    /\ PairReturned
    /\ ret.debug.resolve_home = "unmatched"
    /\ ret.debug.home_key = <<>>
    /\ ret.debug.resolve_away = "token-match"
    /\ call.ratings.xg = <<>>
    /\ _get_strengths(ret.debug.away_key, call.ratings).att_a = <<2, 1>>
    /\ ret.lam_a = <<27, 10>>

\* the two rates a returned call of a prediction path has computed, and the
\* floor of the path
RatesReturned ==
    pc = "returned" /\ call.fn \in {"core_rates", "rates", "expected_goals_for_pair"}

ReturnedRates ==
    IF call.fn = "core_rates" THEN <<ret.lam, ret.mu>>
    ELSE IF call.fn = "rates" THEN ret
    ELSE <<ret.lam_h, ret.lam_a>>

PathFloor ==
    IF call.fn = "core_rates" THEN <<1, 20>>
    ELSE IF call.fn = "rates" THEN call.self.floor_rate
    ELSE <<1, 5>>

\* C18: in every prediction path (expected_goals_for_pair, core_generate's
\* lam/mu, PoissonDC.rates) the expected goals of both sides are never
\* below the positive floor and never above the cap of 3.5.
C18_Bounded ==
    RatesReturned =>
        \A n \in 1 .. 2 :
            /\ RLt(Zero, PathFloor)
            /\ RLe(PathFloor, ReturnedRates[n])
            /\ RLe(ReturnedRates[n], <<7, 2>>)

\* what holds: the floor in every path, the cap in expected_goals_for_pair
FloorEverywhereCapInPair ==
    RatesReturned =>
        \A n \in 1 .. 2 :
            /\ RLt(Zero, PathFloor)
            /\ RLe(PathFloor, ReturnedRates[n])
            /\ call.fn = "expected_goals_for_pair" => RLe(ReturnedRates[n], <<7, 2>>)

(***************************************************************************)
(* Claims about goal cells that are not numbers                            *)
(***************************************************************************)
\* the frame of the call with every text cell taken as 0
CoercedFrame ==
    [n \in 1 .. Len(call.df) |->
        [utc_date |-> call.df[n].utc_date, home |-> call.df[n].home, away |-> call.df[n].away,
         home_goals |-> call.df[n].home_goals, away_goals |-> call.df[n].away_goals]]

\* the number of rows of the frame a team plays in
RowsOf(t) == Cardinality({ n \in 1 .. Len(call.df) : call.df[n].home = t \/ call.df[n].away = t })

TextCall == pc = "returned" /\ call.fn \in {"build_elo", "build_ratings"} /\ HasText(call.df)

\* C21: a match row whose home or away goals value is non-numeric is
\* processed with that value taken as 0: it does not abort build_ratings or
\* build_elo and does not cause any other row to be discarded.
C21_CoercedToZero ==
    TextCall =>
        /\ "teams" \in DOMAIN ret
        /\ DOMAIN ret.teams = TeamsOf(call.df)
        /\ call.fn = "build_elo" => \A t \in DOMAIN ret.teams : ret.teams[t].games = RowsOf(t)
        /\ call.fn = "build_ratings" =>
              ret = build_ratings(CoercedFrame, clock, call.half_life_days,
                                  call.home_adv.max, call.home_adv.min)

\* what holds: a frame with a text cell ends either function in an error and
\* no table; a frame of numbers ends in a table that lists every team
TextAborts ==
    (pc = "returned" /\ call.fn \in {"build_elo", "build_ratings"} /\ call.df # <<>>) =>
        IF HasText(call.df)
        THEN ret = [raised |-> IF call.fn = "build_elo" THEN "ValueError" ELSE "TypeError"]
        ELSE "teams" \in DOMAIN ret /\ DOMAIN ret.teams = TeamsOf(call.df)

(***************************************************************************)
(* Claims about fetch_fixtures and fetch_results                           *)
(***************************************************************************)
\* the request failed with an error status or an HTTP error of the getter
HttpFailed(response) == response.kind \in {"status_error", "http_error"}

\* C22: in the legacy call form a failed HTTP request (error status reported
\* by raise_for_status, or an HTTP error raised by the getter) yields an
\* empty list and no exception; in the modern form the same failure yields
\* an empty frame with the five fixture columns.
C22_FailedRequest ==
    (pc = "returned" /\ call.fn = "fetch_fixtures" /\ HttpFailed(call.response)) =>
        IF call.legacy
        THEN ret = [raised |-> "None", list |-> <<>>]
        ELSE ret = [raised |-> "None",
                    frame |-> [columns |-> <<"match_id", "utc_date", "home", "away", "competition">>,
                               rows |-> <<>>]]

\* the legacy form after the getter raised an HTTP error
C22_Witness ==
    /\ pc = "returned"
    /\ call.fn = "fetch_fixtures"
    /\ call.legacy
    /\ call.response.kind = "http_error"
    /\ ret.list = <<>>

\* a match with both full-time goals present, and the row it gives
BothGoals(m) == m.fullTime[1] # <<>> /\ m.fullTime[2] # <<>>

RowOfMatch(m, s) ==
    [utc_date |-> m.utcDate, season |-> s, home |-> m.homeTeam, away |-> m.awayTeam,
     home_goals |-> m.fullTime[1][1], away_goals |-> m.fullTime[2][1]]

\* the rows of seasons 1 .. n: those of the seasons whose request did not
\* fail, in the order of the seasons list
RECURSIVE ExpectedRows(_)
ExpectedRows(n) ==
    IF n = 0 THEN <<>>
    ELSE IF call.responses[n].kind \in {"status_error", "http_error", "connection_error"}
    THEN ExpectedRows(n - 1)
    ELSE LET kept == SelectSeq(MatchesOf(call.responses[n]), BothGoals)
         IN  ExpectedRows(n - 1) \o [k \in 1 .. Len(kept) |-> RowOfMatch(kept[k], call.seasons[n])]

ResultsReturned == pc = "returned" /\ call.fn = "fetch_results"

\* C23: in the legacy form fetch_results returns a frame with the columns
\* utc_date, season, home, away, home_goals, away_goals in that order,
\* whether or not any season yields rows; one row per returned match with
\* both full-time goals present, for each season whose request succeeded,
\* in the order of the seasons list; a season whose request fails is
\* skipped without aborting the remaining seasons.
C23_ResultsFrame ==
    ResultsReturned =>
        ret = [raised |-> "None",
               frame |-> [columns |-> <<"utc_date", "season", "home", "away",
                                        "home_goals", "away_goals">>,
                          rows |-> ExpectedRows(Len(call.seasons))]]

\* what the code does: a season whose request fails with an error status or
\* with an HTTP error of the getter is skipped; any other exception of the
\* getter leaves fetch_results and no frame is returned
SkippedUnlessGetterRaises ==
    ResultsReturned =>
        IF \E n \in 1 .. Len(call.seasons) : call.responses[n].kind = "connection_error"
        THEN ret = [raised |-> "ConnectionError", frame |-> Idle]
        ELSE ret = [raised |-> "None",
                    frame |-> [columns |-> <<"utc_date", "season", "home", "away",
                                             "home_goals", "away_goals">>,
                               rows |-> ExpectedRows(Len(call.seasons))]]

\* a failed season before a season that yields a goalless draw
SkippedSeasonThenDraw ==
    /\ ResultsReturned
    /\ Len(call.seasons) = 2
    /\ call.responses[1].kind = "status_error"
    /\ call.responses[2].kind = "ok"
    /\ ret.raised = "None"
    /\ Len(ret.frame.rows) = 1
    /\ ret.frame.rows[1].home_goals = 0
    /\ ret.frame.rows[1].season = call.seasons[2]

(***************************************************************************)
(* Claims about the time decay of K in build_elo                           *)
(***************************************************************************)
\* k_base in the unit of KOf
KBase == (DEFAULT_K * PONE) \div 10

\* build_elo is about to replay row elo.i
ReplayingElo == pc = "replay" /\ call.fn = "build_elo" /\ elo.i <= Len(elo.df)

\* C24: the K applied to a match is k_base * 0.5^(age_days / half_life_days)
\* with age measured from run time: of two matches of the dataset the older
\* one never gets the larger K, K never exceeds k_base for any match of the
\* dataset, and half_life_days <= 0 gives K = k_base.
C24_DecayedK ==
    ReplayingElo =>
        /\ \A m, n \in 1 .. Len(elo.df) :
             elo.df[m].kick_dt <= elo.df[n].kick_dt =>
               KOf(elo.df[m], elo.now, call.half_life_days)
                 <= KOf(elo.df[n], elo.now, call.half_life_days)
        /\ KOf(elo.df[elo.i], elo.now, call.half_life_days) <= KBase
        /\ call.half_life_days <= 0 =>
             KOf(elo.df[elo.i], elo.now, call.half_life_days) = KBase

\* the parts of C24 that hold: the older match never gets the larger K,
\* half_life_days <= 0 gives K = k_base, and K <= k_base for every match
\* that kicked off no later than the run time
OlderNeverLarger ==
    ReplayingElo =>
        /\ \A m, n \in 1 .. Len(elo.df) :
             elo.df[m].kick_dt <= elo.df[n].kick_dt =>
               KOf(elo.df[m], elo.now, call.half_life_days)
                 <= KOf(elo.df[n], elo.now, call.half_life_days)
        /\ call.half_life_days <= 0 =>
             KOf(elo.df[elo.i], elo.now, call.half_life_days) = KBase
        /\ elo.df[elo.i].kick_dt <= elo.now =>
             KOf(elo.df[elo.i], elo.now, call.half_life_days) <= KBase

\* a match that kicks off after the run time is replayed with K > k_base
LateMatchAboveKBase ==
    /\ ReplayingElo
    /\ elo.df[elo.i].kick_dt > elo.now
    /\ KOf(elo.df[elo.i], elo.now, call.half_life_days) > KBase

(***************************************************************************)
(* Claims about the strength table and its consumers                       *)
(***************************************************************************)
TableReturned == pc = "returned" /\ call.fn = "strength_table"

\* -1, 0 or 1 as x is below, equal to or above y
Direction(x, y) == IF RLt(y, x) THEN -1 ELSE IF RLt(x, y) THEN 1 ELSE 0

\* C25: one defence-factor convention is applied by every consumer of the
\* strength table: raising the opponent's defence factor as build_ratings
\* defines it, everything else fixed, changes the expected goals of the home
\* team in the same direction in expected_goals_for_pair and in
\* core_generate.
C25_OneConvention ==
    TableReturned =>
        Direction(ret.pair[1].lam_h, ret.pair[2].lam_h)
          = Direction(ret.core[1].lam, ret.core[2].lam)

\* what the code does: a larger defence factor of the opponent never raises
\* the expected goals in expected_goals_for_pair and never lowers them in
\* core_generate
OppositeConventions ==
    TableReturned =>
        /\ Direction(ret.pair[1].lam_h, ret.pair[2].lam_h) <= 0
        /\ Direction(ret.core[1].lam, ret.core[2].lam) >= 0

\* both factors raised: the expected goals fall in one consumer and rise in
\* the other
FallsAndRises ==
    /\ TableReturned
    /\ call.field = "both"
    /\ Direction(ret.pair[1].lam_h, ret.pair[2].lam_h) = -1
    /\ Direction(ret.core[1].lam, ret.core[2].lam) = 1

\* C26: for an entry written by build_ratings, which carries the home and
\* away split factors, expected_goals_for_pair computes the home side's
\* expected goals from the home team's home-split attack and the away
\* team's away-split defence, and the away side's from the away team's
\* away-split attack and the home team's home-split defence.
C26_SplitsUsed ==
    TableReturned =>
        /\ ret.pair[1].lam_h
             = RMax(<<1, 5>>, RMin(<<7, 2>>,
                 RDiv(RMul(<<29, 20>>, call.home.att_home), call.away.def_away)))
        /\ ret.pair[1].lam_a
             = RMax(<<1, 5>>, RMin(<<7, 2>>,
                 RDiv(RMul(<<27, 20>>, call.away.att_away), call.home.def_home)))

\* what the code does: the entries of build_ratings have no key att_h, def_h,
\* att_a or def_a, and the overall factors are used
OverallUsed ==
    TableReturned =>
        /\ ret.pair[1].lam_h
             = RMax(<<1, 5>>, RMin(<<7, 2>>,
                 RDiv(RMul(<<29, 20>>, call.home.att), call.away.def)))
        /\ ret.pair[1].lam_a
             = RMax(<<1, 5>>, RMin(<<7, 2>>,
                 RDiv(RMul(<<27, 20>>, call.away.att), call.home.def)))

(***************************************************************************)
(* Claims about the markets read off the grid                              *)
(***************************************************************************)
\* the mass of a set of cells of the grid
RECURSIVE MassOf(_)
MassOf(S) ==
    IF S = {} THEN Zero
    ELSE LET c == CHOOSE x \in S : TRUE IN RAdd(grid.M[c], MassOf(S \ {c}))

\* C27: with M[i,j] = P(home scores i, away scores j), probs_from_grid
\* returns p_home = mass of the cells with i > j, p_draw = mass of the
\* diagonal, p_away = mass of the cells with i < j, the three summing to the
\* grid total; btts_over_under_from_grid returns BTTS-yes = mass of the
\* cells with i > 0 and j > 0 and Over 2.5 = mass of the cells with
\* i + j >= 3, with yes + no = 1 and over + under = 1.
C27_Markets ==
    /\ (pc = "derived" /\ call.fn = "probs_from_grid") =>
         /\ ret[1] = MassOf({ c \in GridCells : c[1] > c[2] })
         /\ ret[2] = MassOf({ c \in GridCells : c[1] = c[2] })
         /\ ret[3] = MassOf({ c \in GridCells : c[1] < c[2] })
         /\ RAdd(RAdd(ret[1], ret[2]), ret[3]) = MassOf(GridCells)
    /\ (pc = "derived" /\ call.fn = "btts_over_under_from_grid") =>
         /\ ret[1] = MassOf({ c \in GridCells : c[1] > 0 /\ c[2] > 0 })
         /\ ret[3] = MassOf({ c \in GridCells : c[1] + c[2] >= 3 })
         /\ RAdd(ret[1], ret[2]) = OneR
         /\ RAdd(ret[3], ret[4]) = OneR

\* a grid up to 2-2 with unequal sides: the over mass is neither 0 nor the
\* BTTS mass
C27_Witness ==
    /\ pc = "derived"
    /\ call.fn = "btts_over_under_from_grid"
    /\ dc.max_goals = 2
    /\ grid.lam # grid.mu
    /\ RLt(Zero, ret[3])
    /\ RLt(ret[3], ret[1])

(***************************************************************************)
(* Claims about fetch_fixtures_robust                                      *)
(***************************************************************************)
StrategyOrder == <<"modern", "legacy-league", "local-file">>

\* what strategy k gets from its collaborator, and the frame it makes of it
GotBy(k) ==
    IF k = 1 THEN Got(fetch_fixtures(FALSE, call.modern))
    ELSE IF k = 2 THEN Got(fetch_fixtures(TRUE, call.legacy))
    ELSE ReadLocal(call.local)

Raises(k) == GotBy(k).raised # "None"

FrameBy(k) == _finalise_fixtures_df(_ensure_df(GotBy(k).obj), clock)

Yields(k) == ~Raises(k) /\ FrameBy(k).rows # <<>>

\* the attempt strategy k leaves in the debug dict
AttemptBy(k) ==
    IF Raises(k) THEN [strategy |-> StrategyOrder[k], error |-> GotBy(k).raised]
    ELSE [strategy |-> StrategyOrder[k], rows |-> Len(FrameBy(k).rows)]

\* the strategies run: up to the first that yields rows, all three if none
LastRun == IF \E k \in 1 .. 3 : Yields(k) THEN CHOOSE k \in 1 .. 3 : Yields(k) /\ \A j \in 1 .. k - 1 : ~Yields(j)
           ELSE 3

RobustCall == call.fn = "fetch_fixtures_robust"

\* C28: fetch_fixtures_robust tries its strategies in the order modern,
\* legacy-league, local-file; it returns the first frame that has rows and
\* tries no later strategy; it records one debug attempt (rows or error)
\* per strategy tried, in that order; a strategy that raises is recorded
\* and the next one is tried; when none yields rows it returns an empty
\* frame with the columns match_id, utc_date, home, away, and it never
\* raises.
C28_Strategies ==
    RobustCall =>
        /\ Len(ret.tried) <= 3
        /\ ret.tried = SubSeq(StrategyOrder, 1, Len(ret.tried))
        /\ ret.dbg.attempts = [k \in 1 .. Len(ret.tried) |-> AttemptBy(k)]
        /\ pc # "returned" =>
             /\ ret.df = <<>>
             /\ \A k \in 1 .. Len(ret.tried) : ~Yields(k)
        /\ pc = "returned" =>
             /\ Len(ret.tried) = LastRun
             /\ DOMAIN ret = {"df", "dbg", "tried"}
             /\ ret.df = IF Yields(LastRun) THEN <<FrameBy(LastRun)>>
                         ELSE << [columns |-> <<"match_id", "utc_date", "home", "away">>,
                                  rows |-> <<>>] >>

\* the first strategy raised, the second gave no fixture from today on, and
\* the frame returned is that of the local file
C28_Witness ==
    /\ RobustCall
    /\ pc = "returned"
    /\ Raises(1)
    /\ ~Raises(2)
    /\ call.legacy.matches # <<>>
    /\ Len(ret.dbg.attempts) = 3
    /\ ret.dbg.attempts[2].rows = 0
    /\ ret.df[1].rows # <<>>

(***************************************************************************)
(* Claims about evaluate_backtest                                          *)
(***************************************************************************)
\* the archived prediction k of snapshot s, for a finished match m: matched
\* by fd_id, matched by the names and the date, generated before kickoff
Archived == { sk \in (1 .. Len(call.files)) \X (1 .. 2) :
                sk[2] <= Len(call.files[sk[1]].preds) }

EntryAt(sk) == call.files[sk[1]].preds[sk[2]]

StampAt(sk) == call.files[sk[1]].ts

MatchedByFd(sk, m) == EntryAt(sk).fd_id # <<>> /\ EntryAt(sk).fd_id = m.id

MatchedByName(sk, m) ==
    /\ EntryAt(sk).kickoff_utc # <<>>
    /\ _norm(EntryAt(sk).home) = _norm(m.homeTeam)
    /\ _norm(EntryAt(sk).away) = _norm(m.awayTeam)
    /\ EntryAt(sk).kickoff_utc[1] \div 2 = m.utcDate[1] \div 2

BeforeKickoff(sk, m) == StampAt(sk) < m.utcDate[1]

\* the entries a finished match may be scored with: those matched by fd_id
\* and generated before kickoff, and only when there is none those matched
\* by name and date and generated before kickoff
Eligible(m) ==
    IF \E sk \in Archived : MatchedByFd(sk, m) /\ BeforeKickoff(sk, m)
    THEN { sk \in Archived : MatchedByFd(sk, m) /\ BeforeKickoff(sk, m) }
    ELSE { sk \in Archived : MatchedByName(sk, m) /\ BeforeKickoff(sk, m) }

HasScore(m) == m.fullTime[1] # <<>> /\ m.fullTime[2] # <<>>

\* the finished matches that have a score and an eligible entry, in order
ScoredMatches == SelectSeq(call.finished, LAMBDA m : HasScore(m) /\ Eligible(m) # {})

BacktestReturned == pc = "returned" /\ call.fn = "evaluate_backtest"

\* C29: the prediction scored for a finished match is the one of the latest
\* archived snapshot generated strictly before the kickoff; an entry
\* matched by fd_id is preferred and the match by name and date is used
\* only when no fd_id entry before kickoff exists; a snapshot generated at
\* or after kickoff is never scored; a match without an eligible snapshot
\* is skipped.
C29_LatestBeforeKickoff ==
    BacktestReturned =>
        /\ Len(ret.rows) = Len(ScoredMatches)
        /\ \A n \in 1 .. Len(ret.rows) :
             /\ ret.rows[n].kickoff_utc = ScoredMatches[n].utcDate[1]
             /\ ret.rows[n].batch_ts < ret.rows[n].kickoff_utc
             /\ \E sk \in Eligible(ScoredMatches[n]) :
                  /\ StampAt(sk) = ret.rows[n].batch_ts
                  /\ EntryAt(sk).probs = ret.rows[n].probs
             /\ \A sk \in Eligible(ScoredMatches[n]) : StampAt(sk) <= ret.rows[n].batch_ts

\* a match scored with the fd_id entry of an older snapshot although a
\* later snapshot before kickoff matches it by name and date, and a
\* snapshot generated at kickoff that matches by fd_id is left out
C29_Witness ==
    /\ BacktestReturned
    /\ Len(call.finished) = 1
    /\ Len(ret.rows) = 1
    /\ ret.rows[1].batch_ts = 2
    /\ \E sk \in Archived :
         /\ StampAt(sk) = 4
         /\ MatchedByName(sk, call.finished[1])
         /\ ~MatchedByFd(sk, call.finished[1])
         /\ BeforeKickoff(sk, call.finished[1])

(***************************************************************************)
(* Claims about table keys that share a canonical form                     *)
(***************************************************************************)
\* key m of the table is followed by a key with the same canonical form
Shadowed(m) ==
    \E n \in m + 1 .. Len(CallKeys) : canon_team(CallKeys[n]) = canon_team(CallKeys[m])

\* C30: when two keys of the ratings table share a canonical form,
\* resolve_team_key resolves a name with that canonical form to the one
\* that appears last in table order, and the other key is never returned,
\* neither by a direct nor by a token match.
C30_LastKeyWins ==
    Resolved =>
        \A m \in 1 .. Len(CallKeys) :
            Shadowed(m) =>
                /\ ret.key # <<CallKeys[m]>>
                /\ CallCanon = canon_team(CallKeys[m]) =>
                     ret = [key |-> <<LastWithCanon(CallCanon)>>, how |-> "direct"]

\* two keys with one canonical form and a name that shares a token with
\* it: the token match returns the second key
C30_Witness ==
    /\ Resolved
    /\ Len(CallKeys) = 2
    /\ Shadowed(1)
    /\ ret = [key |-> <<CallKeys[2]>>, how |-> "token-match"]

\* the same table and a name of that canonical form: a direct match
SharedFormDirect ==
    /\ Resolved
    /\ Len(CallKeys) = 2
    /\ Shadowed(1)
    /\ ret = [key |-> <<CallKeys[2]>>, how |-> "direct"]
====
